---- MODULE Spec2Model ----
(***************************************************************************)
(* KLResolute WhatsApp SaaS MVP: the inbound webhook pipeline              *)
(* (app/webhooks.py), the outbound draft service                           *)
(* (app/services/message_service.py), the admin handover route             *)
(* (app/admin/routes.py) and the delivery attempt engine                   *)
(* (app/services/outbound_delivery_service.py) over the store of           *)
(* app/models.py.                                                          *)
(*                                                                         *)
(* Time is counted in minutes.  Texts and phone numbers are sequences of   *)
(* one-character strings.  Every database round trip of a handler is one   *)
(* step, so concurrent handlers interleave between their queries and       *)
(* their commits, as they do on a READ COMMITTED store.                    *)
(***************************************************************************)
EXTENDS Integers, Sequences, FiniteSets, TLC

VARIABLES
    contacts,       \* table contacts:       set of [contact_id, contact_number]
    conversations,  \* table conversations:  set of rows
    messages,       \* table messages:       set of rows
    events,         \* table delivery_events: set of rows
    nextId,         \* source of fresh primary keys (uuid4)
    now,            \* the wall clock, in minutes
    proc,           \* the request handlers: program counter and locals
    requests,       \* number of requests accepted so far
    faults,         \* number of injected store / provider faults so far
    sends,          \* provider sends performed through the Meta client
    metaConfigured, \* META_WA_ACCESS_TOKEN and META_WA_PHONE_NUMBER_ID are set
    run,            \* the delivery runs: program counter and locals
    gatewayCalls    \* per message, number of gateway invocations so far

vars == <<contacts, conversations, messages, events, nextId, now, proc,
          requests, faults, sends, metaConfigured, run, gatewayCalls>>

storeVars == <<contacts, conversations, messages, events>>

\* ---------------------------------------------------------------------
\* Bounds of the model
\* ---------------------------------------------------------------------
NumProcs == 2
MaxRequests == 2
MaxCalls == 3
MaxFaults == 1
MaxTime == 2
MaxDeliveryTime == 36
MaxMessageId == 16

\* ---------------------------------------------------------------------
\* Values
\* ---------------------------------------------------------------------
\* SQL NULL / Python None for ids and timestamps (ids start at 1, time at 0)
NULL == -1
\* Python None for a text, a number or a provider_message_id
NoText == <<>>

Procs == 1..NumProcs

\* ---------------------------------------------------------------------
\* Strings
\* ---------------------------------------------------------------------
UPPER == <<"A","B","C","D","E","F","G","H","I","J","K","L","M",
           "N","O","P","Q","R","S","T","U","V","W","X","Y","Z">>
LOWER == <<"a","b","c","d","e","f","g","h","i","j","k","l","m",
           "n","o","p","q","r","s","t","u","v","w","x","y","z">>
DIGITS == {"0","1","2","3","4","5","6","7","8","9"}

\* str.lower() and str.upper(), one character
LowerChar(c) ==
    IF \E i \in 1..Len(UPPER) : UPPER[i] = c
    THEN LOWER[CHOOSE i \in 1..Len(UPPER) : UPPER[i] = c]
    ELSE c

UpperChar(c) ==
    IF \E i \in 1..Len(LOWER) : LOWER[i] = c
    THEN UPPER[CHOOSE i \in 1..Len(LOWER) : LOWER[i] = c]
    ELSE c

Lower(s) == [i \in 1..Len(s) |-> LowerChar(s[i])]

Upper(s) == [i \in 1..Len(s) |-> UpperChar(s[i])]

\* Python's `p in t` on strings
Contains(p, t) ==
    \E i \in 0..(Len(t) - Len(p)) : SubSeq(t, i + 1, i + Len(p)) = p

\* str.startswith
StartsWith(t, p) == Len(t) >= Len(p) /\ SubSeq(t, 1, Len(p)) = p

WHITESPACE == {" "}

\* the index of the first character of s that is in set, 0 when there is none
FirstIn(s, set) ==
    IF \E i \in 1..Len(s) : s[i] \in set
    THEN CHOOSE i \in 1..Len(s) : s[i] \in set /\ \A j \in 1..(i - 1) : s[j] \notin set
    ELSE 0

\* the index of the first character of s that is not in set, 0 when there is none
FirstNotIn(s, set) ==
    IF \E i \in 1..Len(s) : s[i] \notin set
    THEN CHOOSE i \in 1..Len(s) : s[i] \notin set /\ \A j \in 1..(i - 1) : s[j] \in set
    ELSE 0

\* the index of the last character of s that is not in set, 0 when there is none
LastNotIn(s, set) ==
    IF \E i \in 1..Len(s) : s[i] \notin set
    THEN CHOOSE i \in 1..Len(s) :
            s[i] \notin set /\ \A j \in (i + 1)..Len(s) : s[j] \in set
    ELSE 0

\* str.strip()
Strip(s) ==
    IF FirstNotIn(s, WHITESPACE) = 0 THEN <<>>
    ELSE SubSeq(s, FirstNotIn(s, WHITESPACE), LastNotIn(s, WHITESPACE))

\* s.split(":", 1)[1], for an s that holds a colon
AfterFirstColon(s) == SubSeq(s, FirstIn(s, {":"}) + 1, Len(s))

\* s.split(maxsplit=1): the first word and, when more follows, the rest
SplitFirst(s) ==
    LET t == IF FirstNotIn(s, WHITESPACE) = 0 THEN <<>>
             ELSE SubSeq(s, FirstNotIn(s, WHITESPACE), Len(s))
        cut == FirstIn(t, WHITESPACE)
        tail == IF cut = 0 THEN <<>> ELSE SubSeq(t, cut, Len(t))
        more == IF FirstNotIn(tail, WHITESPACE) = 0 THEN <<>>
                ELSE SubSeq(tail, FirstNotIn(tail, WHITESPACE), Len(tail))
    IN  IF t = <<>> THEN <<>>
        ELSE IF cut = 0 THEN <<t>>
        ELSE IF more = <<>> THEN <<SubSeq(t, 1, cut - 1)>>
        ELSE <<SubSeq(t, 1, cut - 1), more>>

\* s.split(): the words of s
RECURSIVE Words(_)
Words(s) ==
    LET f == SplitFirst(s)
    IN  IF Len(f) = 0 THEN <<>>
        ELSE IF Len(f) = 1 THEN f
        ELSE <<f[1]>> \o Words(f[2])

\* re.sub(r"\D", "", raw)
DigitsOf(raw) == SelectSeq(raw, LAMBDA c : c \in DIGITS)

\* _normalise_msisdn: NoText stands for None
normalise_msisdn(raw) ==
    LET digits == DigitsOf(raw)
        national == IF digits # <<>> /\ Head(digits) = "0"
                    THEN <<"2", "7">> \o Tail(digits)
                    ELSE digits
    IN  IF digits = <<>> THEN NoText
        ELSE IF StartsWith(national, <<"2", "7">>) /\ Len(national) >= 11
        THEN national
        ELSE NoText

\* ---------------------------------------------------------------------
\* Provisioned, read-only rows: Client, WhatsAppNumber, FaqItem
\* ---------------------------------------------------------------------
KNOWN_DEST == <<"2","7","1","1","5","5","5","0","0","0","0">>
UNKNOWN_DEST == <<"2","7","1","1","0","0","0","0","0","0","0">>
SENDER_A == <<"2","7","8","2","0","0","0","0","0","0","1">>
SENDER_ADMIN == <<"2","7","6","2","0","0","0","0","0","0","9">>

clients == {[client_id |-> 1, status |-> "active"]}

whatsapp_numbers ==
    {[wa_number_id |-> 1, client_id |-> 1, destination_number |-> KNOWN_DEST]}

R_HOURS == <<"9","-","5">>
R_OUR == <<"o","u","r","s">>
R_OLD == <<"o","l","d">>

faq_items ==
    {[faq_id |-> 1, client_id |-> 1, match_pattern |-> <<"h","o","u","r","s">>,
      response_text |-> R_HOURS, is_active |-> TRUE],
     [faq_id |-> 2, client_id |-> 1, match_pattern |-> <<"O","U","R">>,
      response_text |-> R_OUR, is_active |-> TRUE],
     [faq_id |-> 3, client_id |-> 1, match_pattern |-> <<"h","i">>,
      response_text |-> R_OLD, is_active |-> FALSE]}

\* OUTBOUND_TEST_ALLOWLIST
ADMIN_ALLOWLIST == {SENDER_ADMIN}


\* ---------------------------------------------------------------------
\* Schema constraints of the store
\* ---------------------------------------------------------------------
\* contacts.contact_number is unique
contact_number_unique(rows, number) ==
    ~ \E c \in rows : c.contact_number = number

\* the index left out of the schema
uq_conversations_active_missing(rows, wa_number_id, contact_id) == TRUE

\* partial unique index: one row per (wa_number_id, contact_id) among the
\* rows with closed_at IS NULL
uq_conversations_active(rows, wa_number_id, contact_id) ==
    ~ \E c \in rows : /\ c.wa_number_id = wa_number_id
                      /\ c.contact_id = contact_id
                      /\ c.closed_at = NULL

\* the reference from conversations to contacts left undeclared
fk_conversation_contact_undeclared(rows, contact_id) == TRUE

\* conversations.contact_id references contacts.contact_id
fk_conversation_contact(rows, contact_id) ==
    \E c \in rows : c.contact_id = contact_id

\* messages.conversation_id references conversations.conversation_id
fk_message_conversation(rows, conversation_id) ==
    \E c \in rows : c.conversation_id = conversation_id

\* ---------------------------------------------------------------------
\* Request handlers
\* ---------------------------------------------------------------------
IdleProc ==
    [pc |-> "idle", entry |-> "none",
     sender_number |-> NoText, message_text |-> NoText,
     wa_number_id |-> NULL, client_id |-> NULL, contact_id |-> NULL,
     conversation_id |-> NULL, conversation_status |-> "none",
     inbound_message_id |-> NULL, response_text |-> NoText,
     outbound |-> NULL, http |-> 0, error |-> "none",
     destination_number |-> NoText,
     command |-> "none", msisdn |-> NoText, text |-> NoText,
     confirm |-> "none", returned |-> "none",
     hub_mode |-> "None", hub_verify_token |-> "None",
     hub_challenge |-> "None", META_VERIFY_TOKEN |-> "None",
     content |-> "None"]

\* return Response(status_code=status.HTTP_200_OK)
Respond200(l) == [l EXCEPT !.pc = "done", !.http = 200]

\* an exception leaves the handler: FastAPI answers 500 to the provider; a
\* direct caller of the draft service gets the exception
Raise(l, why) ==
    [l EXCEPT !.pc = "done", !.error = why,
              !.http = IF l.entry = "webhook" THEN 500 ELSE 0]

\* the draft service returns to its caller: the webhook then answers 200
Finish(l) == IF l.entry = "webhook" THEN Respond200(l) ELSE [l EXCEPT !.pc = "done"]

\* a request body: json is FALSE when the body does not parse; a field the
\* extractor cannot reach is NoText
Body(destination_number, sender_number, message_text) ==
    [json |-> TRUE, destination_number |-> destination_number,
     sender_number |-> sender_number, message_text |-> message_text]

T_HOURS == <<"H","o","u","r","s">>
T_HI == <<"h","i">>

\* the request bodies the provider posts in this model
Bodies ==
    {[json |-> FALSE, destination_number |-> NoText,
      sender_number |-> NoText, message_text |-> NoText],
     Body(KNOWN_DEST, SENDER_A, NoText),
     Body(UNKNOWN_DEST, SENDER_A, T_HOURS),
     Body(KNOWN_DEST, SENDER_A, T_HOURS),
     Body(KNOWN_DEST, SENDER_A, T_HI),
     Body(KNOWN_DEST, SENDER_ADMIN, T_HOURS)}

\* db.query(WhatsAppNumber).filter(destination_number == ...).one_or_none()
WaNumberOf(destination_number) ==
    {w \in whatsapp_numbers : w.destination_number = destination_number}

\* db.query(Client).filter(client_id == wa_number.client_id).one_or_none()
ClientOf(wa) == {c \in clients : c.client_id = wa.client_id}

T_ADD == <<"a","d","d"," ","c","l","i","e","n","t",":"," ",
           "0","8","2","0","0","0","0","0","0","1">>
T_ADD_USAGE == <<"A","D","D"," ","C","L","I","E","N","T",":"," ">>
T_REMOVE == <<"R","E","M","O","V","E"," ","C","L","I","E","N","T",":",
              "+","2","7","8","2","0","0","0","0","0","0","1">>
T_SEND == <<"S","E","N","D",":"," ","0","8","2","0","0","0","0","0","0","1",
            " ","h","i">>

\* the request bodies of the admin commands: each command from the admin, a
\* command text from a sender that is not on the allowlist, and a question
AdminBodies ==
    {Body(KNOWN_DEST, SENDER_ADMIN, T_ADD),
     Body(KNOWN_DEST, SENDER_ADMIN, T_ADD_USAGE),
     Body(KNOWN_DEST, SENDER_ADMIN, T_REMOVE),
     Body(KNOWN_DEST, SENDER_ADMIN, T_SEND),
     Body(KNOWN_DEST, SENDER_A, T_ADD),
     Body(KNOWN_DEST, SENDER_A, T_HOURS),
     Body(UNKNOWN_DEST, SENDER_ADMIN, T_ADD),
     Body(UNKNOWN_DEST, SENDER_A, T_HOURS),
     [json |-> FALSE, destination_number |-> NoText,
      sender_number |-> NoText, message_text |-> NoText],
     Body(NoText, SENDER_A, T_HOURS),
     Body(KNOWN_DEST, NoText, T_HOURS),
     Body(KNOWN_DEST, SENDER_ADMIN, NoText)}

CMD_ADD == <<"A","D","D"," ","C","L","I","E","N","T",":">>
CMD_REMOVE == <<"R","E","M","O","V","E"," ","C","L","I","E","N","T",":">>
CMD_SEND == <<"S","E","N","D",":">>

\* the command test with the allow-list left out
CommandOfAnySender(sender_number, message_text) ==
    IF StartsWith(Upper(message_text), CMD_ADD) THEN "add"
    ELSE IF StartsWith(Upper(message_text), CMD_REMOVE) THEN "remove"
    ELSE IF StartsWith(Upper(message_text), CMD_SEND) THEN "send"
    ELSE "none"

\* which admin branch of the webhook the message takes, "none" for the pipeline
CommandOf(sender_number, message_text) ==
    IF sender_number \notin ADMIN_ALLOWLIST THEN "none"
    ELSE IF StartsWith(Upper(message_text), CMD_ADD) THEN "add"
    ELSE IF StartsWith(Upper(message_text), CMD_REMOVE) THEN "remove"
    ELSE IF StartsWith(Upper(message_text), CMD_SEND) THEN "send"
    ELSE "none"

\* the next step is admin_msg.confirm(sender_number, what) inside the try block
Confirm(l, what) == [l EXCEPT !.pc = "admin_confirm", !.confirm = what]

\* an exception inside the try block: the except handler rolls back and
\* confirms the failure, outside any try
ConfirmFailure(l) == [l EXCEPT !.pc = "admin_confirm_except", !.confirm = "failed"]

\* an admin command up to its first store round trip: the messengers are
\* constructed before the try block, then the command is parsed
AdminCommand(l, command) ==
    LET body == AfterFirstColon(l.message_text)
        parts == IF command = "send" THEN SplitFirst(Strip(body))
                 ELSE Words(Strip(body))
        msisdn == IF command = "send" THEN normalise_msisdn(parts[1])
                  ELSE normalise_msisdn(parts[Len(parts)])
        text == Strip(parts[2])
        c == [l EXCEPT !.command = command]
    IN  IF ~ metaConfigured THEN Raise(c, "RuntimeError")
        ELSE IF command = "send" /\ Len(parts) < 2 THEN Confirm(c, "usage")
        ELSE IF command # "send" /\ parts = <<>> THEN Confirm(c, "usage")
        ELSE IF msisdn = NoText THEN Confirm(c, "invalid")
        ELSE IF command = "send" /\ text = NoText THEN Confirm(c, "invalid")
        ELSE [c EXCEPT !.pc = "admin_lookup", !.msisdn = msisdn,
                       !.text = IF command = "send" THEN text ELSE NoText]

\* the field test with the sender left out
fields_missing_sender_unchecked(body) ==
    body.destination_number = NoText \/ body.message_text = NoText

\* not destination_number or not sender_number or not message_text: None and
\* the empty string are both falsy
fields_missing(body) ==
    \/ body.destination_number = NoText
    \/ body.sender_number = NoText
    \/ body.message_text = NoText

\* parse, the admin test and the routing reads (none of them reads a table the
\* system writes)
Receive(p, body) ==
    /\ proc[p].pc \in {"idle", "done"}
    /\ requests < MaxRequests
    /\ requests' = requests + 1
    /\ LET l == [IdleProc EXCEPT !.entry = "webhook",
                                 !.destination_number = body.destination_number,
                                 !.sender_number = body.sender_number,
                                 !.message_text = body.message_text]
       IN  proc' = [proc EXCEPT ![p] =
             IF ~ body.json THEN Respond200(l)
             ELSE IF fields_missing(body)
             THEN Respond200(l)
             ELSE IF CommandOf(body.sender_number, body.message_text) # "none"
             THEN AdminCommand(l, CommandOf(body.sender_number, body.message_text))
             ELSE IF WaNumberOf(body.destination_number) = {}
             THEN Respond200(l)
             ELSE LET wa == CHOOSE w \in WaNumberOf(body.destination_number) : TRUE
                  IN  IF ClientOf(wa) = {}
                      THEN Respond200(l)
                      ELSE [l EXCEPT !.pc = "contact_lookup",
                                     !.wa_number_id = wa.wa_number_id,
                                     !.client_id = wa.client_id]]
    /\ UNCHANGED <<storeVars, nextId, now, faults, sends, metaConfigured,
                   run, gatewayCalls>>

\* the outcomes of one call of the provider's HTTP API: accepted, refused with
\* an error status (returned, not raised), or a transport failure (raised)
ProviderOutcomes == {"ok", "rejected", "raise"}

\* existing = db.query(Contact).filter(contact_number == msisdn).one_or_none()
AdminLookup(p) ==
    /\ proc[p].pc = "admin_lookup"
    /\ LET l == proc[p]
           existing == {c \in contacts : c.contact_number = l.msisdn}
       IN  proc' = [proc EXCEPT ![p] =
             IF l.command = "add"
             THEN IF existing # {} THEN Confirm(l, "exists")
                  ELSE [l EXCEPT !.pc = "admin_write"]
             ELSE IF existing = {} THEN Confirm(l, "not_found")
             ELSE IF l.command = "remove"
             THEN [l EXCEPT !.pc = "admin_write",
                            !.contact_id = (CHOOSE c \in existing : TRUE).contact_id]
             ELSE [l EXCEPT !.pc = "admin_send"]]
    /\ UNCHANGED <<storeVars, nextId, now, requests, faults, sends,
                   metaConfigured, run, gatewayCalls>>

\* ADD CLIENT: db.add(Contact(...)); db.commit()
\* REMOVE CLIENT: db.delete(existing); db.commit()
AdminWrite(p) ==
    /\ proc[p].pc = "admin_write"
    /\ LET l == proc[p]
           inserted == contacts \cup {[contact_id |-> nextId, contact_number |-> l.msisdn]}
           deleted == {c \in contacts : c.contact_id # l.contact_id}
       IN  IF l.command = "add"
           THEN IF contact_number_unique(contacts, l.msisdn)
                THEN /\ contacts' = inserted
                     /\ nextId' = nextId + 1
                     /\ proc' = [proc EXCEPT ![p] = Confirm(l, "added")]
                ELSE /\ proc' = [proc EXCEPT ![p] = ConfirmFailure(l)]
                     /\ UNCHANGED <<contacts, nextId>>
           ELSE IF /\ deleted # contacts
                   /\ \A c \in conversations :
                         fk_conversation_contact(deleted, c.contact_id)
                THEN /\ contacts' = deleted
                     /\ proc' = [proc EXCEPT ![p] = Confirm(l, "removed")]
                     /\ UNCHANGED nextId
                ELSE /\ proc' = [proc EXCEPT ![p] = ConfirmFailure(l)]
                     /\ UNCHANGED <<contacts, nextId>>
    /\ UNCHANGED <<conversations, messages, events, now, requests, faults,
                   sends, metaConfigured, run, gatewayCalls>>

\* a provider call whose outcome is "raise" is an injected fault
ProviderAllows(outcome) == outcome = "raise" => faults < MaxFaults

\* SEND: client_msg.send_session(msisdn, text); the result is not inspected
AdminSend(p, outcome) ==
    /\ proc[p].pc = "admin_send"
    /\ ProviderAllows(outcome)
    /\ LET l == proc[p]
       IN  IF outcome = "raise"
           THEN /\ proc' = [proc EXCEPT ![p] = ConfirmFailure(l)]
                /\ faults' = faults + 1
                /\ UNCHANGED sends
           ELSE /\ proc' = [proc EXCEPT ![p] = Confirm(l, "sent")]
                /\ sends' = sends \cup {[to |-> l.msisdn, text |-> l.text,
                                          kind |-> "client", outcome |-> outcome]}
                /\ UNCHANGED faults
    /\ UNCHANGED <<storeVars, nextId, now, requests, metaConfigured, run,
                   gatewayCalls>>

\* admin_msg.confirm(sender_number, ...) inside the try block, then 200
AdminConfirm(p, outcome) ==
    /\ proc[p].pc = "admin_confirm"
    /\ ProviderAllows(outcome)
    /\ LET l == proc[p]
       IN  IF outcome = "raise"
           THEN /\ proc' = [proc EXCEPT ![p] = ConfirmFailure(l)]
                /\ faults' = faults + 1
                /\ UNCHANGED sends
           ELSE /\ proc' = [proc EXCEPT ![p] = Respond200(l)]
                /\ sends' = sends \cup {[to |-> l.sender_number, text |-> NoText,
                                          kind |-> l.confirm, outcome |-> outcome]}
                /\ UNCHANGED faults
    /\ UNCHANGED <<storeVars, nextId, now, requests, metaConfigured, run,
                   gatewayCalls>>

\* admin_msg.confirm(sender_number, ...) in an except handler, then 200
AdminConfirmExcept(p, outcome) ==
    /\ proc[p].pc = "admin_confirm_except"
    /\ ProviderAllows(outcome)
    /\ LET l == proc[p]
       IN  IF outcome = "raise"
           THEN /\ proc' = [proc EXCEPT ![p] = Raise(l, "ProviderError")]
                /\ faults' = faults + 1
                /\ UNCHANGED sends
           ELSE /\ proc' = [proc EXCEPT ![p] = Respond200(l)]
                /\ sends' = sends \cup {[to |-> l.sender_number, text |-> NoText,
                                          kind |-> l.confirm, outcome |-> outcome]}
                /\ UNCHANGED faults
    /\ UNCHANGED <<storeVars, nextId, now, requests, metaConfigured, run,
                   gatewayCalls>>

\* the store is unavailable for one round trip of an admin command: the
\* driver raises inside the try block
AdminStoreFault(p) ==
    /\ proc[p].pc \in {"admin_lookup", "admin_write"}
    /\ faults < MaxFaults
    /\ faults' = faults + 1
    /\ proc' = [proc EXCEPT ![p] = ConfirmFailure(@)]
    /\ UNCHANGED <<storeVars, nextId, now, requests, sends, metaConfigured,
                   run, gatewayCalls>>

\* contact = db.query(Contact).filter(contact_number == sender).one_or_none()
ContactLookup(p) ==
    /\ proc[p].pc = "contact_lookup"
    /\ LET found == {c \in contacts : c.contact_number = proc[p].sender_number}
       IN  proc' = [proc EXCEPT ![p] =
             IF found = {}
             THEN [@ EXCEPT !.pc = "contact_insert"]
             ELSE [@ EXCEPT !.pc = "conversation_lookup",
                            !.contact_id = (CHOOSE c \in found : TRUE).contact_id]]
    /\ UNCHANGED <<storeVars, nextId, now, requests, faults, sends,
                   metaConfigured, run, gatewayCalls>>

\* db.add(Contact(contact_number=sender)); db.commit(); db.refresh(contact)
\* outside any try: an IntegrityError leaves the handler
ContactInsert(p) ==
    /\ proc[p].pc = "contact_insert"
    /\ IF contact_number_unique(contacts, proc[p].sender_number)
       THEN /\ contacts' = contacts \cup
                  {[contact_id |-> nextId,
                    contact_number |-> proc[p].sender_number]}
            /\ nextId' = nextId + 1
            /\ proc' = [proc EXCEPT ![p] =
                  [@ EXCEPT !.pc = "conversation_lookup", !.contact_id = nextId]]
       ELSE /\ proc' = [proc EXCEPT ![p] = Raise(@, "IntegrityError:contact")]
            /\ UNCHANGED <<contacts, nextId>>
    /\ UNCHANGED <<conversations, messages, events, now, requests, faults,
                   sends, metaConfigured, run, gatewayCalls>>

\* the open conversation of (wa_number_id, contact_id), .one_or_none()
ConversationLookup(p) ==
    /\ proc[p].pc = "conversation_lookup"
    /\ LET found == {c \in conversations :
                        /\ c.wa_number_id = proc[p].wa_number_id
                        /\ c.contact_id = proc[p].contact_id
                        /\ c.closed_at = NULL}
       IN  proc' = [proc EXCEPT ![p] =
             IF found = {}
             THEN [@ EXCEPT !.pc = "conversation_insert"]
             ELSE LET c == CHOOSE c \in found : TRUE
                  IN  [@ EXCEPT !.pc = "inbound_insert",
                                !.conversation_id = c.conversation_id,
                                !.conversation_status = c.status]]
    /\ UNCHANGED <<storeVars, nextId, now, requests, faults, sends,
                   metaConfigured, run, gatewayCalls>>

\* db.add(Conversation(client_id, wa_number_id, contact_id)); db.commit();
\* db.refresh(conversation): status takes its server default "automated"
ConversationInsert(p) ==
    /\ proc[p].pc = "conversation_insert"
    /\ IF /\ fk_conversation_contact(contacts, proc[p].contact_id)
          /\ uq_conversations_active(conversations, proc[p].wa_number_id,
                                     proc[p].contact_id)
       THEN /\ conversations' = conversations \cup
                  {[conversation_id |-> nextId,
                    client_id |-> proc[p].client_id,
                    wa_number_id |-> proc[p].wa_number_id,
                    contact_id |-> proc[p].contact_id,
                    status |-> "automated",
                    closed_at |-> NULL]}
            /\ nextId' = nextId + 1
            /\ proc' = [proc EXCEPT ![p] =
                  [@ EXCEPT !.pc = "inbound_insert",
                            !.conversation_id = nextId,
                            !.conversation_status = "automated"]]
       ELSE /\ proc' = [proc EXCEPT ![p] = Raise(@, "IntegrityError:conversation")]
            /\ UNCHANGED <<conversations, nextId>>
    /\ UNCHANGED <<contacts, messages, events, now, requests, faults, sends,
                   metaConfigured, run, gatewayCalls>>

\* the webhook's Message stored as a reply
inbound_direction_as_outbound == "outbound"

\* Message(..., direction="inbound", ...)
inbound_direction == "inbound"

\* db.add(Message(conversation_id, direction="inbound", message_text)); db.commit()
InboundInsert(p) ==
    /\ proc[p].pc = "inbound_insert"
    /\ IF fk_message_conversation(conversations, proc[p].conversation_id)
       THEN /\ messages' = messages \cup
                  {[message_id |-> nextId,
                    conversation_id |-> proc[p].conversation_id,
                    direction |-> inbound_direction,
                    message_text |-> proc[p].message_text,
                    provider_message_id |-> NoText,
                    stored_at |-> now,
                    sent_at |-> NULL]}
            /\ nextId' = nextId + 1
            /\ proc' = [proc EXCEPT ![p] =
                  [@ EXCEPT !.pc = "faq_match", !.inbound_message_id = nextId]]
       ELSE /\ proc' = [proc EXCEPT ![p] = Raise(@, "IntegrityError:message")]
            /\ UNCHANGED <<messages, nextId>>
    /\ UNCHANGED <<contacts, conversations, events, now, requests, faults,
                   sends, metaConfigured, run, gatewayCalls>>

\* the active FaqItems of the client; the query has no ORDER BY
ActiveFaqs(client_id) ==
    {f \in faq_items : f.client_id = client_id /\ f.is_active}

\* f.match_pattern.lower() in message_text.lower()
FaqMatches(f, message_text) ==
    Contains(Lower(f.match_pattern), Lower(message_text))

\* next((f for f in faqs if ...), None): the first match of a list whose order
\* the store chooses, so any matching item can be the one selected
MatchedFaqs(client_id, message_text) ==
    {f \in ActiveFaqs(client_id) : FaqMatches(f, message_text)}

\* if matched_faq: MessageService(db).handle_inbound_message(...), which
\* returns at once on an empty selected_response
FaqMatch(p) ==
    /\ proc[p].pc = "faq_match"
    /\ LET matched == MatchedFaqs(proc[p].client_id, proc[p].message_text)
       IN  \/ /\ matched = {}
              /\ proc' = [proc EXCEPT ![p] = Respond200(@)]
           \/ \E f \in matched :
                 proc' = [proc EXCEPT ![p] =
                    IF f.response_text = NoText
                    THEN Respond200(@)
                    ELSE [@ EXCEPT !.pc = "draft_key",
                                   !.response_text = f.response_text]]
    /\ UNCHANGED <<storeVars, nextId, now, requests, faults, sends,
                   metaConfigured, run, gatewayCalls>>


\* ---------------------------------------------------------------------
\* MessageService._create_outbound_message
\* ---------------------------------------------------------------------
_IDEMPOTENCY_PREFIX == "parent_inbound:"

\* the key without its prefix
idempotency_key_unprefixed(inbound_message_id) == <<"", inbound_message_id>>

\* f"{_IDEMPOTENCY_PREFIX}{inbound_message_id}"
idempotency_key(inbound_message_id) ==
    <<_IDEMPOTENCY_PREFIX, inbound_message_id>>

\* minutes of the H-01 window: timedelta(minutes=2)
DEDUP_WINDOW == 2

\* the idempotency query filtering on the wrong direction
existing_for_inbound_wrong_direction(rows, conversation_id, key) ==
    {m \in rows : /\ m.conversation_id = conversation_id
                  /\ m.direction = "inbound"
                  /\ m.provider_message_id = key}

\* the outbound rows of the conversation that carry the key
existing_for_inbound(rows, conversation_id, key) ==
    {m \in rows : /\ m.conversation_id = conversation_id
                  /\ m.direction = "outbound"
                  /\ m.provider_message_id = key}

\* the same-text query without its filter on the text
last_outbound_any_text(rows, conversation_id, message_text) ==
    LET same == {m \in rows : /\ m.conversation_id = conversation_id
                              /\ m.direction = "outbound"}
    IN  {m \in same : \A o \in same : o.stored_at <= m.stored_at}

\* the outbound rows of the conversation with that text,
\* .order_by(stored_at.desc()).first()
last_outbound_same_text(rows, conversation_id, message_text) ==
    LET same == {m \in rows : /\ m.conversation_id = conversation_id
                              /\ m.direction = "outbound"
                              /\ m.message_text = message_text}
    IN  {m \in same : \A o \in same : o.stored_at <= m.stored_at}

\* the window test with the comparison turned round
window_suppresses_inverted(rows, conversation_id, message_text, now_utc) ==
    \E m \in last_outbound_same_text(rows, conversation_id, message_text) :
        /\ m.stored_at # NULL
        /\ now_utc - m.stored_at > DEDUP_WINDOW

\* last and last.stored_at and (now_utc - last_utc) < timedelta(minutes=2)
window_suppresses(rows, conversation_id, message_text, now_utc) ==
    \E m \in last_outbound_same_text(rows, conversation_id, message_text) :
        /\ m.stored_at # NULL
        /\ now_utc - m.stored_at < DEDUP_WINDOW

\* the idempotency query; a hit returns None
DraftCheckKey(p) ==
    /\ proc[p].pc = "draft_key"
    /\ proc' = [proc EXCEPT ![p] =
          IF existing_for_inbound(messages, proc[p].conversation_id,
                idempotency_key(proc[p].inbound_message_id)) # {}
          THEN Finish(@)
          ELSE [@ EXCEPT !.pc = "draft_window"]]
    /\ UNCHANGED <<storeVars, nextId, now, requests, faults, sends,
                   metaConfigured, run, gatewayCalls>>

\* the same-text query and the clock read; inside the window returns None
DraftCheckWindow(p) ==
    /\ proc[p].pc = "draft_window"
    /\ proc' = [proc EXCEPT ![p] =
          IF window_suppresses(messages, proc[p].conversation_id,
                               proc[p].response_text, now)
          THEN Finish(@)
          ELSE [@ EXCEPT !.pc = "draft_insert"]]
    /\ UNCHANGED <<storeVars, nextId, now, requests, faults, sends,
                   metaConfigured, run, gatewayCalls>>

\* self._db.add(outbound); commit(); refresh(outbound); return outbound
DraftInsert(p) ==
    /\ proc[p].pc = "draft_insert"
    /\ IF fk_message_conversation(conversations, proc[p].conversation_id)
       THEN /\ messages' = messages \cup
                  {[message_id |-> nextId,
                    conversation_id |-> proc[p].conversation_id,
                    direction |-> "outbound",
                    message_text |-> proc[p].response_text,
                    provider_message_id |->
                        idempotency_key(proc[p].inbound_message_id),
                    stored_at |-> now,
                    sent_at |-> NULL]}
            /\ nextId' = nextId + 1
            /\ proc' = [proc EXCEPT ![p] = Finish([@ EXCEPT !.outbound = nextId])]
       ELSE /\ proc' = [proc EXCEPT ![p] = Raise(@, "IntegrityError:message")]
            /\ UNCHANGED <<messages, nextId>>
    /\ UNCHANGED <<contacts, conversations, events, now, requests, faults,
                   sends, metaConfigured, run, gatewayCalls>>

\* a direct call of _create_outbound_message(inbound_message_id,
\* conversation_id, message_text)
DraftCall(p, inbound_message_id, conversation_id, message_text) ==
    /\ proc[p].pc \in {"idle", "done"}
    /\ requests < MaxCalls
    /\ requests' = requests + 1
    /\ proc' = [proc EXCEPT ![p] =
          [IdleProc EXCEPT !.pc = "draft_key", !.entry = "draft",
                           !.inbound_message_id = inbound_message_id,
                           !.conversation_id = conversation_id,
                           !.response_text = message_text]]
    /\ UNCHANGED <<storeVars, nextId, now, faults, sends, metaConfigured,
                   run, gatewayCalls>>

\* the same call made only while no other handler is running
DraftCallSequential(p, inbound_message_id, conversation_id, message_text) ==
    /\ \A q \in Procs : proc[q].pc \in {"idle", "done"}
    /\ DraftCall(p, inbound_message_id, conversation_id, message_text)

\* ---------------------------------------------------------------------
\* OutboundDeliveryService
\* ---------------------------------------------------------------------
MAX_ATTEMPTS == 3
\* minutes: timedelta(minutes=5), timedelta(minutes=30)
BACKOFF_AFTER_ATTEMPT_1 == 5
BACKOFF_AFTER_ATTEMPT_2 == 30

EVENT_DRY_RUN_ATTEMPT == "dry_run_attempt"
EVENT_RETRY_ATTEMPT == "retry_attempt"
EVENT_RETRY_EXHAUSTED == "retry_exhausted"

ATTEMPT_EVENT_TYPES == {EVENT_DRY_RUN_ATTEMPT, EVENT_RETRY_ATTEMPT}

\* the statuses a SendGateway receipt can carry
SendStatus == {"dry_run", "sent", "failed", "disabled"}

\* the two delivery workers; a run is one transaction of one of them
RunIds == {1, 2}

IdleRun ==
    [pc |-> "idle", now_utc |-> NULL, todo |-> <<>>, pending |-> {},
     stamped |-> {}, performed_attempts |-> 0]

\* the attempt events of a message
attempt_events(evts, message_id) ==
    {e \in evts : e.message_id = message_id /\ e.event_type \in ATTEMPT_EVENT_TYPES}

\* func.max(DeliveryEvent.created_at) over a set of events; NULL when empty
max_created_at(evts) ==
    IF evts = {} THEN NULL
    ELSE (CHOOSE e \in evts : \A o \in evts : o.created_at <= e.created_at).created_at

\* _get_attempt_state: (attempts, last_attempt_at)
get_attempt_state(evts, message_id) ==
    <<Cardinality(attempt_events(evts, message_id)),
      max_created_at(attempt_events(evts, message_id))>>

\* _required_wait; NULL stands for None
required_wait(attempts) ==
    IF attempts <= 0 THEN 0
    ELSE IF attempts = 1 THEN BACKOFF_AFTER_ATTEMPT_1
    ELSE IF attempts = 2 THEN BACKOFF_AFTER_ATTEMPT_2
    ELSE NULL

\* the cap test written with > in place of >=
cap_reached_off_by_one(attempts) == attempts > MAX_ATTEMPTS

\* the cap test one attempt early
cap_reached_early(attempts) == attempts >= MAX_ATTEMPTS - 1

\* if attempts >= MAX_ATTEMPTS
cap_reached(attempts) == attempts >= MAX_ATTEMPTS

\* the backoff test that also waits at the very end of the backoff
backoff_blocks_inclusive(attempts, last_attempt_at, now_utc) ==
    /\ last_attempt_at # NULL
    /\ required_wait(attempts) # NULL
    /\ required_wait(attempts) # 0
    /\ now_utc - last_attempt_at <= required_wait(attempts)

\* a backoff that never ends once an attempt has been made
backoff_blocks_forever(attempts, last_attempt_at, now_utc) ==
    last_attempt_at # NULL

\* if last_attempt_at and required_wait:
\*     if (now_utc - last_attempt_at) < required_wait: return False
\* (None and timedelta(0) are both falsy)
backoff_blocks(attempts, last_attempt_at, now_utc) ==
    /\ last_attempt_at # NULL
    /\ required_wait(attempts) # NULL
    /\ required_wait(attempts) # 0
    /\ now_utc - last_attempt_at < required_wait(attempts)

\* the existence query of _ensure_exhausted_event left out
exhausted_event_exists_unchecked(evts, message_id) == FALSE

\* the existence query of _ensure_exhausted_event
exhausted_event_exists(evts, message_id) ==
    \E e \in evts : e.message_id = message_id /\ e.event_type = EVENT_RETRY_EXHAUSTED

\* a failed send recorded as a failure, not as an attempt
event_type_of_failed_unrecorded(status) ==
    IF status = "disabled" THEN EVENT_DRY_RUN_ATTEMPT
    ELSE IF status = "failed" THEN "send_failed"
    ELSE EVENT_RETRY_ATTEMPT

\* EVENT_DRY_RUN_ATTEMPT if receipt.status in (DISABLED, FAILED) else
\* EVENT_RETRY_ATTEMPT
event_type_of(status) ==
    IF status \in {"disabled", "failed"} THEN EVENT_DRY_RUN_ATTEMPT
    ELSE EVENT_RETRY_ATTEMPT

\* sequences that list every element of S twice
OrderingsTwice(S) ==
    {o \o o : o \in {q \in [1..Cardinality(S) -> S] :
                        \A x \in S : \E i \in DOMAIN q : q[i] = x}}

\* the sequences that list every element of S once
Orderings(S) ==
    {o \in [1..Cardinality(S) -> S] : \A x \in S : \E i \in DOMAIN o : o[i] = x}

\* session.query(Message).filter(direction == "outbound")
\*        .order_by(Message.stored_at.asc()).all(), as message ids; rows with
\* equal stored_at come in an order the store chooses
outbound_messages(rows) ==
    LET out == {m \in rows : m.direction = "outbound"}
        at(id) == (CHOOSE m \in out : m.message_id = id).stored_at
    IN  {o \in Orderings({m.message_id : m \in out}) :
            \A i \in DOMAIN o : \A j \in DOMAIN o :
                i < j => at(o[i]) <= at(o[j])}

\* run_delivery up to the loop: the clock read and the query
RunStart(r) ==
    /\ run[r].pc = "idle"
    /\ \E o \in outbound_messages(messages) :
          run' = [run EXCEPT ![r] =
             [IdleRun EXCEPT !.pc = "running", !.now_utc = now, !.todo = o]]
    /\ UNCHANGED <<storeVars, nextId, now, proc, requests, faults, sends,
                   metaConfigured, gatewayCalls>>

\* run_delivery entered only while no other run is in progress
RunStartExclusive(r) ==
    /\ \A q \in RunIds : run[q].pc = "idle"
    /\ RunStart(r)

\* one iteration of the loop: _attempt_if_eligible(session, msg, now_utc),
\* the gateway answering with `status`.  The events and the sent_at stamp
\* are added to the session; the session of SessionLocal does not autoflush.
RunStep(r, status) ==
    /\ run[r].pc = "running"
    /\ run[r].todo # <<>>
    /\ LET id == Head(run[r].todo)
           st == get_attempt_state(events, id)
           attempts == st[1]
           last_attempt_at == st[2]
           rest == [run[r] EXCEPT !.todo = Tail(run[r].todo)]
       IN  IF cap_reached(attempts)
           THEN /\ run' = [run EXCEPT ![r] =
                     IF exhausted_event_exists(events, id)
                     THEN rest
                     ELSE [rest EXCEPT !.pending = @ \cup
                             {[message_id |-> id,
                               event_type |-> EVENT_RETRY_EXHAUSTED,
                               event_detail |-> "max attempts reached"]}]]
                /\ UNCHANGED gatewayCalls
           ELSE IF backoff_blocks(attempts, last_attempt_at, run[r].now_utc)
           THEN /\ run' = [run EXCEPT ![r] = rest]
                /\ UNCHANGED gatewayCalls
           ELSE /\ gatewayCalls' = [gatewayCalls EXCEPT ![id] = @ + 1]
                /\ run' = [run EXCEPT ![r] =
                     [rest EXCEPT
                        !.pending = @ \cup
                            {[message_id |-> id,
                              event_type |-> event_type_of(status),
                              event_detail |-> status]},
                        !.stamped = @ \cup {id},
                        !.performed_attempts = @ + 1]]
    /\ UNCHANGED <<storeVars, nextId, now, proc, requests, faults, sends,
                   metaConfigured>>

\* the rows a commit writes for the pending events: created_at takes the
\* server default now(), the start of the run's transaction
CommittedEvents(pending, first_id, created_at) ==
    LET ids == CHOOSE f \in [pending -> first_id..(first_id + Cardinality(pending) - 1)] :
                  \A a \in pending : \A b \in pending : a # b => f[a] # f[b]
    IN  {[delivery_event_id |-> ids[e], message_id |-> e.message_id,
          event_type |-> e.event_type, event_detail |-> e.event_detail,
          created_at |-> created_at] : e \in pending}

\* a stamp that also rewrites the text of the rows it touches
stamp_sent_at_and_text(rows, stamped, now_utc) ==
    {IF m.message_id \in stamped
     THEN [m EXCEPT !.sent_at = now_utc, !.message_text = NoText]
     ELSE m : m \in rows}

\* msg.sent_at = now_utc; session.add(msg), for the messages attempted in
\* the run, written by the commit
stamp_sent_at(rows, stamped, now_utc) ==
    {IF m.message_id \in stamped
     THEN [m EXCEPT !.sent_at = now_utc]
     ELSE m : m \in rows}

\* a commit that replaces the stored events by the run's
RunCommitReplacingEvents(r) ==
    /\ run[r].pc = "running"
    /\ run[r].todo = <<>>
    /\ events' = CommittedEvents(run[r].pending, nextId, run[r].now_utc)
    /\ nextId' = nextId + Cardinality(run[r].pending)
    /\ messages' = stamp_sent_at(messages, run[r].stamped, run[r].now_utc)
    /\ run' = [run EXCEPT ![r] = IdleRun]
    /\ UNCHANGED <<contacts, conversations, now, proc, requests, faults,
                   sends, metaConfigured, gatewayCalls>>

\* session.commit(); return performed_attempts; the session is closed
RunCommit(r) ==
    /\ run[r].pc = "running"
    /\ run[r].todo = <<>>
    /\ events' = events \cup
          CommittedEvents(run[r].pending, nextId, run[r].now_utc)
    /\ nextId' = nextId + Cardinality(run[r].pending)
    /\ messages' = stamp_sent_at(messages, run[r].stamped, run[r].now_utc)
    /\ run' = [run EXCEPT ![r] = IdleRun]
    /\ UNCHANGED <<contacts, conversations, now, proc, requests, faults,
                   sends, metaConfigured, gatewayCalls>>

\* the worker dies, or an exception leaves the loop: nothing of the run's
\* session is committed
RunCrash(r) ==
    /\ run[r].pc = "running"
    /\ faults < MaxFaults
    /\ faults' = faults + 1
    /\ run' = [run EXCEPT ![r] = IdleRun]
    /\ UNCHANGED <<storeVars, nextId, now, proc, requests, sends,
                   metaConfigured, gatewayCalls>>

\* self._gateway.send_text(req=msg.to_send_request()) raises for the message
\* at hand: nothing in _attempt_if_eligible or run_delivery catches it, the
\* finally clause closes the session and run_delivery raises
RunGatewayRaises(r) ==
    /\ run[r].pc = "running"
    /\ run[r].todo # <<>>
    /\ faults < MaxFaults
    /\ LET id == Head(run[r].todo)
           st == get_attempt_state(events, id)
       IN  /\ ~cap_reached(st[1])
           /\ ~backoff_blocks(st[1], st[2], run[r].now_utc)
           /\ gatewayCalls' = [gatewayCalls EXCEPT ![id] = @ + 1]
    /\ faults' = faults + 1
    /\ run' = [run EXCEPT ![r] = IdleRun]
    /\ UNCHANGED <<storeVars, nextId, now, proc, requests, sends,
                   metaConfigured>>

\* a minute passes between two runs (a run reads the clock once, when it
\* starts, and its rows take the time of its transaction's start)
DeliveryTick ==
    /\ \A r \in RunIds : run[r].pc = "idle"
    /\ now < MaxDeliveryTime
    /\ now' = now + 1
    /\ UNCHANGED <<storeVars, nextId, proc, requests, faults, sends,
                   metaConfigured, run, gatewayCalls>>

\* ---------------------------------------------------------------------
\* The rest of the environment
\* ---------------------------------------------------------------------
\* the program points at which a handler talks to the store
StorePcs ==
    {"contact_lookup", "contact_insert", "conversation_lookup",
     "conversation_insert", "inbound_insert", "faq_match",
     "draft_key", "draft_window", "draft_insert"}

\* the store is unavailable for one round trip: the driver raises, and no
\* handler of the pipeline catches it
StoreFault(p) ==
    /\ proc[p].pc \in StorePcs
    /\ faults < MaxFaults
    /\ faults' = faults + 1
    /\ proc' = [proc EXCEPT ![p] = Raise(@, "OperationalError")]
    /\ UNCHANGED <<storeVars, nextId, now, requests, sends, metaConfigured,
                   run, gatewayCalls>>

\* a handover that switches the status back when called again
handover_conversation_toggle(conversation_id) ==
    /\ \E c \in conversations : c.conversation_id = conversation_id
    /\ conversations' =
          {IF c.conversation_id = conversation_id
           THEN [c EXCEPT !.status =
                    IF @ = "handed_over" THEN "automated" ELSE "handed_over"]
           ELSE c : c \in conversations}
    /\ UNCHANGED <<contacts, messages, events, nextId, now, proc, requests,
                   faults, sends, metaConfigured, run, gatewayCalls>>

\* POST /admin/conversations/{conversation_id}/handover
handover_conversation(conversation_id) ==
    /\ \E c \in conversations : c.conversation_id = conversation_id
    /\ conversations' =
          {IF c.conversation_id = conversation_id /\ c.status # "handed_over"
           THEN [c EXCEPT !.status = "handed_over"]
           ELSE c : c \in conversations}
    /\ UNCHANGED <<contacts, messages, events, nextId, now, proc, requests,
                   faults, sends, metaConfigured, run, gatewayCalls>>

\* a minute passes
Tick ==
    /\ now < MaxTime
    /\ now' = now + 1
    /\ UNCHANGED <<storeVars, nextId, proc, requests, faults, sends,
                   metaConfigured, run, gatewayCalls>>

\* ---------------------------------------------------------------------
\* Specification of the webhook pipeline with the admin handover
\* ---------------------------------------------------------------------
Init ==
    /\ contacts \in {{}, {[contact_id |-> 1, contact_number |-> SENDER_A]}}
    /\ conversations = {}
    /\ messages = {}
    /\ events = {}
    /\ nextId = 2
    /\ now = 0
    /\ proc = [p \in Procs |-> IdleProc]
    /\ requests = 0
    /\ faults = 0
    /\ sends = {}
    /\ metaConfigured = TRUE
    /\ run = [r \in RunIds |-> IdleRun]
    /\ gatewayCalls = <<>>

Next ==
    \/ \E p \in Procs, body \in Bodies : Receive(p, body)
    \/ \E p \in Procs : ContactLookup(p)
    \/ \E p \in Procs : ContactInsert(p)
    \/ \E p \in Procs : ConversationLookup(p)
    \/ \E p \in Procs : ConversationInsert(p)
    \/ \E p \in Procs : InboundInsert(p)
    \/ \E p \in Procs : FaqMatch(p)
    \/ \E p \in Procs : DraftCheckKey(p)
    \/ \E p \in Procs : DraftCheckWindow(p)
    \/ \E p \in Procs : DraftInsert(p)
    \/ \E p \in Procs : StoreFault(p)
    \/ \E c \in conversations : handover_conversation(c.conversation_id)
    \/ Tick

Spec == Init /\ [][Next]_vars

\* ---------------------------------------------------------------------
\* Specification of the webhook with the admin commands
\* ---------------------------------------------------------------------
InitAdmin ==
    /\ contacts \in {{}, {[contact_id |-> 1, contact_number |-> SENDER_A]}}
    /\ conversations = {}
    /\ messages = {}
    /\ events = {}
    /\ nextId = 2
    /\ now = 0
    /\ proc = [p \in Procs |-> IdleProc]
    /\ requests = 0
    /\ faults = 0
    /\ sends = {}
    /\ metaConfigured \in BOOLEAN
    /\ run = [r \in RunIds |-> IdleRun]
    /\ gatewayCalls = <<>>

NextAdmin ==
    \/ \E p \in Procs, body \in AdminBodies : Receive(p, body)
    \/ \E p \in Procs : AdminLookup(p)
    \/ \E p \in Procs : AdminWrite(p)
    \/ \E p \in Procs, outcome \in ProviderOutcomes : AdminSend(p, outcome)
    \/ \E p \in Procs, outcome \in ProviderOutcomes : AdminConfirm(p, outcome)
    \/ \E p \in Procs, outcome \in ProviderOutcomes : AdminConfirmExcept(p, outcome)
    \/ \E p \in Procs : AdminStoreFault(p)
    \/ \E p \in Procs : ContactLookup(p)
    \/ \E p \in Procs : ContactInsert(p)
    \/ \E p \in Procs : ConversationLookup(p)
    \/ \E p \in Procs : ConversationInsert(p)
    \/ \E p \in Procs : InboundInsert(p)
    \/ \E p \in Procs : FaqMatch(p)
    \/ \E p \in Procs : DraftCheckKey(p)
    \/ \E p \in Procs : DraftCheckWindow(p)
    \/ \E p \in Procs : DraftInsert(p)
    \/ \E p \in Procs : StoreFault(p)

SpecAdmin == InitAdmin /\ [][NextAdmin]_vars


\* ---------------------------------------------------------------------
\* Claims on the webhook pipeline
\* ---------------------------------------------------------------------
\* the handlers that have answered a webhook request
Answered == {p \in Procs : proc[p].pc = "done" /\ proc[p].entry = "webhook"}

\* C1: in every reachable state every pair (wa_number_id, contact_id) has at
\* most one Conversation row with closed_at = NULL, also when webhook handlers
\* for the same sender and destination interleave between the lookup of the
\* open conversation and its insert.
C1_UniqueOpenConversation ==
    \A c1 \in conversations : \A c2 \in conversations :
        ( /\ c1.wa_number_id = c2.wa_number_id
          /\ c1.contact_id = c2.contact_id
          /\ c1.closed_at = NULL
          /\ c2.closed_at = NULL )
        => c1.conversation_id = c2.conversation_id

\* Two handlers both missed the open conversation in their lookup; one
\* inserted it and the insert of the other was refused by the index.
C1_Witness ==
    \E p \in Procs :
        /\ proc[p].error = "IntegrityError:conversation"
        /\ \E c \in conversations :
              /\ c.wa_number_id = proc[p].wa_number_id
              /\ c.contact_id = proc[p].contact_id
              /\ c.closed_at = NULL

\* C2 (as claimed): a webhook that resolved a conversation whose status is
\* handed_over stores its inbound Message and creates no outbound Message,
\* whatever its text.
C2_HandedOverStaysSilent ==
    \A p \in Answered :
        (proc[p].conversation_status = "handed_over" /\ proc[p].error = "none")
        => /\ proc[p].inbound_message_id # NULL
           /\ proc[p].outbound = NULL

\* C9 (as claimed): whatsapp_webhook answers every request with HTTP 200,
\* whatever happened inside.
C9_AlwaysAcknowledges ==
    \A p \in Answered : proc[p].http = 200

\* the request of handler p was well formed and its destination number
\* resolves to a WhatsAppNumber and a Client
Routed(p) ==
    /\ proc[p].sender_number # NoText
    /\ proc[p].message_text # NoText
    /\ \E w \in WaNumberOf(proc[p].destination_number) : ClientOf(w) # {}

\* C10 (as claimed): every well-formed event whose destination resolves to a
\* WhatsAppNumber and a Client adds one inbound Message row with the event's
\* text.  Stated for the requests that ended without any exception.
C10_InboundAlwaysStored ==
    \A p \in Answered :
        (Routed(p) /\ proc[p].error = "none")
        => \E m \in messages :
              /\ m.message_id = proc[p].inbound_message_id
              /\ m.direction = "inbound"
              /\ m.message_text = proc[p].message_text

\* ---------------------------------------------------------------------
\* Specifications of the draft service called on its own
\* ---------------------------------------------------------------------
\* a store as two webhooks from each of two senders leave it, their drafts
\* not yet made
InitDraft ==
    /\ contacts = {[contact_id |-> 1, contact_number |-> SENDER_A],
                   [contact_id |-> 2, contact_number |-> SENDER_ADMIN]}
    /\ conversations =
          {[conversation_id |-> 3, client_id |-> 1, wa_number_id |-> 1,
            contact_id |-> 1, status |-> "automated", closed_at |-> NULL],
           [conversation_id |-> 4, client_id |-> 1, wa_number_id |-> 1,
            contact_id |-> 2, status |-> "automated", closed_at |-> NULL]}
    /\ messages =
          {[message_id |-> 5, conversation_id |-> 3, direction |-> "inbound",
            message_text |-> T_HOURS, provider_message_id |-> NoText,
            stored_at |-> 0, sent_at |-> NULL],
           [message_id |-> 6, conversation_id |-> 3, direction |-> "inbound",
            message_text |-> T_HOURS, provider_message_id |-> NoText,
            stored_at |-> 0, sent_at |-> NULL]}
    /\ events = {}
    /\ nextId = 7
    /\ now = 0
    /\ proc = [p \in Procs |-> IdleProc]
    /\ requests = 0
    /\ faults = 0
    /\ sends = {}
    /\ metaConfigured = TRUE
    /\ run = [r \in RunIds |-> IdleRun]
    /\ gatewayCalls = <<>>

DraftInboundIds == {5, 6}
DraftConversationIds == {3, 4}
DraftTexts == {R_HOURS, R_OUR}

DraftSteps ==
    \/ \E p \in Procs : DraftCheckKey(p)
    \/ \E p \in Procs : DraftCheckWindow(p)
    \/ \E p \in Procs : DraftInsert(p)
    \/ Tick

NextDraftSeq ==
    \/ \E p \in Procs, i \in DraftInboundIds, c \in DraftConversationIds,
          t \in DraftTexts : DraftCallSequential(p, i, c, t)
    \/ DraftSteps

NextDraft ==
    \/ \E p \in Procs, i \in DraftInboundIds, c \in DraftConversationIds,
          t \in DraftTexts : DraftCall(p, i, c, t)
    \/ DraftSteps

\* calls of the draft service one after the other
SpecDraftSeq == InitDraft /\ [][NextDraftSeq]_vars

\* calls of the draft service that may overlap
SpecDraft == InitDraft /\ [][NextDraft]_vars

\* ---------------------------------------------------------------------
\* Claims on the draft service
\* ---------------------------------------------------------------------
\* the outbound rows of a conversation drafted for an inbound message id
DraftsFor(conversation_id, inbound_message_id) ==
    {m \in messages :
        /\ m.direction = "outbound"
        /\ m.conversation_id = conversation_id
        /\ m.provider_message_id = <<"parent_inbound:", inbound_message_id>>}

\* the handler takes a step
Steps(p) == proc'[p] # proc[p]

\* the handler returns None and the Message table stays as it is
ReturnsNone(p) ==
    /\ proc'[p].pc = "done"
    /\ proc'[p].outbound = NULL
    /\ proc'[p].error = "none"
    /\ messages' = messages

C3_AtMostOnePerKey ==
    \A c \in DraftConversationIds : \A i \in DraftInboundIds :
        Cardinality(DraftsFor(c, i)) <= 1

C3_LaterCallsReturnNone ==
    \A p \in Procs :
        ( /\ proc[p].pc = "draft_key"
          /\ DraftsFor(proc[p].conversation_id, proc[p].inbound_message_id) # {}
          /\ Steps(p) )
        => ReturnsNone(p)

C4_KeyPreventsDuplicates ==
    \A m1 \in messages : \A m2 \in messages :
        ( /\ m1.direction = "outbound"
          /\ m2.direction = "outbound"
          /\ m1.conversation_id = m2.conversation_id
          /\ m1.provider_message_id = m2.provider_message_id )
        => m1.message_id = m2.message_id

\* an outbound row of the conversation with that text stored less than two
\* minutes ago
RecentSameText(conversation_id, message_text) ==
    \E m \in messages :
        /\ m.direction = "outbound"
        /\ m.conversation_id = conversation_id
        /\ m.message_text = message_text
        /\ now - m.stored_at < 2

C5_NoInsertInsideWindow ==
    \A p \in Procs :
        ( /\ proc[p].pc = "draft_window"
          /\ RecentSameText(proc[p].conversation_id, proc[p].response_text)
          /\ Steps(p) )
        => ReturnsNone(p)

C5_SameTextTwoMinutesApart ==
    \A m1 \in messages : \A m2 \in messages :
        ( /\ m1.direction = "outbound"
          /\ m2.direction = "outbound"
          /\ m1.conversation_id = m2.conversation_id
          /\ m1.message_text = m2.message_text
          /\ m1.message_id # m2.message_id
          /\ m1.stored_at <= m2.stored_at )
        => m2.stored_at - m1.stored_at >= 2

\* C5: a draft with text t requested while the latest outbound Message with
\* text t of that conversation is less than 2 minutes old returns None and
\* inserts nothing, also for a different inbound message id; so two outbound
\* rows of one conversation with the same text are at least 2 minutes apart.
C5_TimeWindowDedup ==
    /\ []C5_SameTextTwoMinutesApart
    /\ [][C5_NoInsertInsideWindow]_vars

\* A call for an inbound id that has no draft returned None, the same text
\* having been drafted for another inbound id inside the window.
C5_Witness ==
    \E p \in Procs :
        /\ proc[p].pc = "done"
        /\ proc[p].entry = "draft"
        /\ proc[p].outbound = NULL
        /\ DraftsFor(proc[p].conversation_id, proc[p].inbound_message_id) = {}
        /\ RecentSameText(proc[p].conversation_id, proc[p].response_text)


\* ---------------------------------------------------------------------
\* Specification of the delivery engine, one run at a time
\* ---------------------------------------------------------------------
\* a store holding two inbound messages and the draft made for the first
InitDelivery ==
    /\ contacts = {[contact_id |-> 1, contact_number |-> SENDER_A]}
    /\ conversations =
          {[conversation_id |-> 3, client_id |-> 1, wa_number_id |-> 1,
            contact_id |-> 1, status |-> "automated", closed_at |-> NULL]}
    /\ messages =
          {[message_id |-> 5, conversation_id |-> 3, direction |-> "inbound",
            message_text |-> T_HOURS, provider_message_id |-> NoText,
            stored_at |-> 0, sent_at |-> NULL],
           [message_id |-> 6, conversation_id |-> 3, direction |-> "inbound",
            message_text |-> T_HOURS, provider_message_id |-> NoText,
            stored_at |-> 0, sent_at |-> NULL],
           [message_id |-> 7, conversation_id |-> 3, direction |-> "outbound",
            message_text |-> R_HOURS,
            provider_message_id |-> idempotency_key(5),
            stored_at |-> 0, sent_at |-> NULL]}
    /\ events = {}
    /\ nextId = 8
    /\ now = 0
    /\ proc = [p \in Procs |-> IdleProc]
    /\ requests = 0
    /\ faults = 0
    /\ sends = {}
    /\ metaConfigured = TRUE
    /\ run = [r \in RunIds |-> IdleRun]
    /\ gatewayCalls = [id \in {7} |-> 0]

NextDelivery ==
    \/ RunStartExclusive(1)
    \/ \E status \in SendStatus : RunStep(1, status)
    \/ RunCommit(1)
    \/ RunCrash(1)
    \/ DeliveryTick

SpecDelivery == InitDelivery /\ [][NextDelivery]_vars


\* ---------------------------------------------------------------------
\* Claims on the delivery engine
\* ---------------------------------------------------------------------
OutboundIds == {m.message_id : m \in {x \in messages : x.direction = "outbound"}}

\* the committed attempt events of a message, and its retry_exhausted events
AttemptsOf(id) ==
    {e \in events : /\ e.message_id = id
                    /\ e.event_type \in {"dry_run_attempt", "retry_attempt"}}

ExhaustedOf(id) ==
    {e \in events : e.message_id = id /\ e.event_type = "retry_exhausted"}

\* C6: for every outbound Message, in every state reached by run_delivery
\* executions that do not overlap (any clock, any gateway outcome), the
\* number of attempt events (dry_run_attempt, retry_attempt) is at most 3.
C6_AttemptsCapped ==
    \A id \in OutboundIds : Cardinality(AttemptsOf(id)) <= 3

\* A message has its three attempts and a later run has gone over it
\* without attempting again.
C6_Witness ==
    \E id \in OutboundIds :
        /\ Cardinality(AttemptsOf(id)) = 3
        /\ gatewayCalls[id] = 3
        /\ run[1].pc = "running"
        /\ run[1].todo = <<>>
        /\ run[1].performed_attempts = 0

C7_ExhaustedAtMostOnce ==
    \A id \in OutboundIds :
        /\ Cardinality(ExhaustedOf(id)) <= 1
        /\ ExhaustedOf(id) # {} => Cardinality(AttemptsOf(id)) >= 3

C7_NoFourthInvocation ==
    \A id \in OutboundIds :
        Cardinality(AttemptsOf(id)) >= 3 => gatewayCalls'[id] = gatewayCalls[id]

\* a run that commits after the cap was reached leaves one retry_exhausted
C7_NextRunRecordsExhaustion ==
    \A id \in OutboundIds :
        ( /\ Cardinality(AttemptsOf(id)) >= 3
          /\ run[1].pc = "running"
          /\ run'[1].pc = "idle"
          /\ events' # events \/ ExhaustedOf(id) # {} )
        => Cardinality({e \in events' : /\ e.message_id = id
                                        /\ e.event_type = "retry_exhausted"}) = 1

\* C7: once an outbound Message has 3 attempt events, the next completed run
\* records one retry_exhausted event for it, and whatever number of runs
\* follow, no second retry_exhausted event is added and the gateway is not
\* invoked for it a 4th time.
C7_ExhaustedOnce ==
    /\ []C7_ExhaustedAtMostOnce
    /\ [][C7_NoFourthInvocation /\ C7_NextRunRecordsExhaustion]_vars

\* The retry_exhausted event is there and a later run has gone over the
\* message, adding nothing.
C7_Witness ==
    \E id \in OutboundIds :
        /\ Cardinality(ExhaustedOf(id)) = 1
        /\ run[1].pc = "running"
        /\ run[1].todo = <<>>
        /\ run[1].pending = {}
        /\ \E e \in ExhaustedOf(id) : e.created_at < run[1].now_utc

\* the time of the last committed attempt of a message
LastAttemptOf(id) ==
    CHOOSE t \in {e.created_at : e \in AttemptsOf(id)} :
        \A e \in AttemptsOf(id) : e.created_at <= t

\* the backoff rule as the claim states it
Eligible(id, at) ==
    LET a == Cardinality(AttemptsOf(id))
    IN  \/ a = 0
        \/ a = 1 /\ at - LastAttemptOf(id) >= 5
        \/ a = 2 /\ at - LastAttemptOf(id) >= 30

\* C8: a run at time now invokes the gateway for an outbound Message with a
\* attempts, the last at T, exactly when a = 0, or a = 1 and now - T >= 5
\* minutes, or a = 2 and now - T >= 30 minutes; then it does so once.
C8_BackoffEligibility ==
    [][ \A id \in OutboundIds :
          ( /\ run[1].pc = "running"
            /\ run[1].todo # <<>>
            /\ Head(run[1].todo) = id
            /\ run'[1].pc = "running"
            /\ run'[1].todo = Tail(run[1].todo) )
          => /\ Eligible(id, run[1].now_utc)
                => /\ gatewayCalls'[id] = gatewayCalls[id] + 1
                   /\ run'[1].performed_attempts = run[1].performed_attempts + 1
             /\ ~ Eligible(id, run[1].now_utc)
                => /\ gatewayCalls'[id] = gatewayCalls[id]
                   /\ run'[1].performed_attempts = run[1].performed_attempts
      ]_vars

\* Three attempts, each made at the first minute the backoff allowed: 5
\* minutes after the first, 30 minutes after the second.
C8_Witness ==
    \E id \in OutboundIds :
        \E e1 \in AttemptsOf(id) : \E e2 \in AttemptsOf(id) : \E e3 \in AttemptsOf(id) :
            /\ e2.created_at - e1.created_at = 5
            /\ e3.created_at - e2.created_at = 30

\* ---------------------------------------------------------------------
\* Further claims on the webhook
\* ---------------------------------------------------------------------
\* the webhook handlers that went past routing into the pipeline and met no
\* store outage
PipelineDone == {p \in Answered : /\ proc[p].wa_number_id # NULL
                                  /\ proc[p].error # "OperationalError"}

\* C11 (as claimed): when webhook handlers for the same new sender race on the
\* Contact or the Conversation insert, one Contact row per number is stored,
\* and the handler whose insert is refused re-reads the winner's row and goes
\* on, so each handler ends without error with its inbound Message stored.
C11_RaceLoserContinues ==
    /\ \A c1 \in contacts : \A c2 \in contacts :
          c1.contact_number = c2.contact_number => c1 = c2
    /\ \A p \in PipelineDone :
          /\ proc[p].error = "none"
          /\ \E m \in messages : /\ m.message_id = proc[p].inbound_message_id
                                  /\ m.direction = "inbound"

\* the step is taken by the webhook handler p
StepOf(p) == proc'[p] # proc[p] /\ proc'[p].entry = "webhook"

\* C12 (as claimed): a webhook event whose destination number is not a
\* registered WhatsAppNumber, whoever sent it and whatever its text, leaves
\* the Contact, Conversation and Message tables unchanged; when its handler
\* ends without an exception the answer is 200.
C12_UnknownDestinationNoWrites ==
    [][\A p \in Procs :
          (StepOf(p) /\ WaNumberOf(proc'[p].destination_number) = {})
          => /\ contacts' = contacts
             /\ conversations' = conversations
             /\ messages' = messages
             /\ (proc'[p].pc = "done" /\ proc'[p].error = "none")
                   => proc'[p].http = 200]_vars

\* the request of handler l lacks a field (a body that is not JSON has none)
Malformed(l) ==
    l.destination_number = NoText \/ l.sender_number = NoText \/ l.message_text = NoText

\* C13: when the destination number, the sender number or the message text is
\* absent or empty, or the body is not JSON, the handler writes nothing to
\* the store, calls no provider and answers 200.
C13_MalformedDropped ==
    [][\A p \in Procs :
          (StepOf(p) /\ Malformed(proc'[p]))
          => /\ UNCHANGED <<contacts, conversations, messages, events>>
             /\ sends' = sends
             /\ proc'[p].pc = "done"
             /\ proc'[p].http = 200]_vars

\* An event with a text and a destination but no sender was answered.
C13_Witness ==
    \E p \in Answered :
        /\ proc[p].sender_number = NoText
        /\ proc[p].message_text = T_HOURS
        /\ proc[p].destination_number = KNOWN_DEST
        /\ proc[p].http = 200

\* the matching active FaqItem that comes first in creation order
FirstMatch(client_id, message_text) ==
    {f \in MatchedFaqs(client_id, message_text) :
        \A g \in MatchedFaqs(client_id, message_text) : f.faq_id <= g.faq_id}

\* C14 (as claimed): the response selected for an inbound text is the
\* response_text of the first active FaqItem, in ascending creation order,
\* whose pattern is a case-insensitive substring of the text.
C14_FirstMatchSelected ==
    \A p \in Procs :
        (proc[p].entry = "webhook" /\ proc[p].response_text # NoText)
        => \E f \in FirstMatch(proc[p].client_id, proc[p].message_text) :
              proc[p].response_text = f.response_text

\* C15 (as claimed): when no active FaqItem matches the inbound text and the
\* conversation is not handed over, the selector returns the fallback
\* response, so the event still leads to an outbound draft.
C15_FallbackDrafted ==
    \A p \in PipelineDone :
        ( /\ proc[p].error = "none"
          /\ proc[p].conversation_status # "handed_over"
          /\ MatchedFaqs(proc[p].client_id, proc[p].message_text) = {} )
        => \E m \in messages :
              /\ m.direction = "outbound"
              /\ m.conversation_id = proc[p].conversation_id
              /\ m.provider_message_id = <<"parent_inbound:", proc[p].inbound_message_id>>

\* handler p has answered the only event received so far, from a sender that
\* had no Contact row, with a text that an active FaqItem matches, and no
\* conversation was handed over meanwhile
FirstEverMatched(p) ==
    /\ requests = 1
    /\ p \in Answered
    /\ proc[p].error = "none"
    /\ proc[p].wa_number_id # NULL
    /\ MatchedFaqs(proc[p].client_id, proc[p].message_text) # {}
    /\ ~ \E c \in contacts : /\ c.contact_number = proc[p].sender_number
                              /\ c.contact_id = 1
    /\ \A c \in conversations : c.status # "handed_over"

\* C16: a first-ever event from an unknown sender to a known destination
\* whose text matches an active FaqItem leaves one new Contact, one new
\* Conversation (automated, open), one inbound Message and one outbound
\* Message in that conversation with the FAQ's response_text and the key
\* "parent_inbound:" followed by the inbound Message's id.
C16_FirstContactScenario ==
    \A p \in Procs :
        FirstEverMatched(p)
        => /\ Cardinality({c \in contacts :
                              c.contact_number = proc[p].sender_number}) = 1
           /\ Cardinality(conversations) = 1
           /\ \A c \in conversations :
                 /\ c.status = "automated"
                 /\ c.closed_at = NULL
                 /\ c.wa_number_id = proc[p].wa_number_id
                 /\ \E k \in contacts : /\ k.contact_id = c.contact_id
                                         /\ k.contact_number = proc[p].sender_number
           /\ Cardinality(messages) = 2
           /\ \E i \in messages : \E o \in messages :
                 /\ i.direction = "inbound"
                 /\ i.message_text = proc[p].message_text
                 /\ o.direction = "outbound"
                 /\ \E f \in MatchedFaqs(proc[p].client_id, proc[p].message_text) :
                       o.message_text = f.response_text
                 /\ o.provider_message_id = <<"parent_inbound:", i.message_id>>
                 /\ \A c \in conversations :
                       /\ i.conversation_id = c.conversation_id
                       /\ o.conversation_id = c.conversation_id

\* The first event, "Hours" from a new sender, has been answered.
C16_Witness ==
    \E p \in Procs :
        /\ FirstEverMatched(p)
        /\ proc[p].message_text = T_HOURS
        /\ proc[p].outbound # NULL

\* ---------------------------------------------------------------------
\* Specification of webhook deliveries handled one after the other
\* ---------------------------------------------------------------------
\* the provider posts an event after the handler of the previous one returned
ReceiveSequential(p, body) ==
    /\ \A q \in Procs : proc[q].pc \in {"idle", "done"}
    /\ Receive(p, body)

NextSequential ==
    \/ \E p \in Procs, body \in Bodies : ReceiveSequential(p, body)
    \/ \E p \in Procs : ContactLookup(p)
    \/ \E p \in Procs : ContactInsert(p)
    \/ \E p \in Procs : ConversationLookup(p)
    \/ \E p \in Procs : ConversationInsert(p)
    \/ \E p \in Procs : InboundInsert(p)
    \/ \E p \in Procs : FaqMatch(p)
    \/ \E p \in Procs : DraftCheckKey(p)
    \/ \E p \in Procs : DraftCheckWindow(p)
    \/ \E p \in Procs : DraftInsert(p)
    \/ Tick

SpecSequential == Init /\ [][NextSequential]_vars

\* the inbound Message a draft was made for
ParentOf(o) == {i \in messages : /\ i.direction = "inbound"
                                 /\ o.provider_message_id = <<"parent_inbound:", i.message_id>>}

\* C17 (as claimed): when the same webhook payload is delivered twice, one
\* delivery after the other and any time apart, one outbound Message at most
\* is created for it: two drafts of one conversation with the same text never
\* answer two inbound Messages that carry the same text.
C17_RedeliveryAbsorbed ==
    \A o1 \in messages : \A o2 \in messages :
        ( /\ o1.direction = "outbound"
          /\ o2.direction = "outbound"
          /\ o1.conversation_id = o2.conversation_id
          /\ o1.message_text = o2.message_text
          /\ \E i1 \in ParentOf(o1) : \E i2 \in ParentOf(o2) :
                i1.message_text = i2.message_text )
        => o1 = o2

\* ---------------------------------------------------------------------
\* Further claims on the draft service
\* ---------------------------------------------------------------------
\* the call of handler p ends with this step
Returns(p) == proc[p].pc # "done" /\ proc'[p].pc = "done"

\* the call inserts one outbound Message for its arguments and returns it
InsertsDraft(p) ==
    /\ proc'[p].outbound # NULL
    /\ \E m \in messages' :
          /\ m \notin messages
          /\ messages' = messages \cup {m}
          /\ m.message_id = proc'[p].outbound
          /\ m.direction = "outbound"
          /\ m.conversation_id = proc[p].conversation_id
          /\ m.message_text = proc[p].response_text
          /\ m.provider_message_id = <<"parent_inbound:", proc[p].inbound_message_id>>

\* neither suppression rule applies to the call of handler p
NotSuppressed(p) ==
    /\ DraftsFor(proc[p].conversation_id, proc[p].inbound_message_id) = {}
    /\ ~ RecentSameText(proc[p].conversation_id, proc[p].response_text)

C18_ReturnsDraftIffAllowed ==
    \A p \in Procs :
        (proc[p].entry = "draft" /\ Returns(p))
        => /\ InsertsDraft(p) <=> NotSuppressed(p)
           /\ InsertsDraft(p) \/ ReturnsNone(p)

C18_GoesOnOnlyWhenAllowed ==
    \A p \in Procs :
        (proc[p].entry = "draft" /\ Steps(p) /\ ~ Returns(p)
           /\ proc[p].pc \in {"draft_key", "draft_window"})
        => /\ DraftsFor(proc[p].conversation_id, proc[p].inbound_message_id) = {}
           /\ proc[p].pc = "draft_window"
                 => ~ RecentSameText(proc[p].conversation_id, proc[p].response_text)

\* C18: a call of _create_outbound_message inserts and returns an outbound
\* Message (direction outbound, the response text, the idempotency key)
\* exactly when no outbound Message of the conversation carries the key and
\* none with the same text was stored less than 2 minutes ago; otherwise it
\* returns None and inserts nothing.
C18_DraftExactlyWhenAllowed ==
    [][C18_ReturnsDraftIffAllowed /\ C18_GoesOnOnlyWhenAllowed]_vars

\* Two drafts with the same text in one conversation, for different inbound
\* ids: the later one was requested 2 minutes or more after the earlier.
C18_Witness ==
    \E m1 \in messages : \E m2 \in messages :
        /\ m1.direction = "outbound"
        /\ m2.direction = "outbound"
        /\ m1.conversation_id = m2.conversation_id
        /\ m1.message_text = m2.message_text
        /\ m1.provider_message_id # m2.provider_message_id
        /\ m2.stored_at - m1.stored_at >= 2

\* ---------------------------------------------------------------------
\* Specification of the whole system: webhook with admin commands, admin
\* handover and the delivery engine on one store
\* ---------------------------------------------------------------------
InitSystem ==
    /\ contacts \in {{}, {[contact_id |-> 1, contact_number |-> SENDER_A]}}
    /\ conversations = {}
    /\ messages = {}
    /\ events = {}
    /\ nextId = 2
    /\ now = 0
    /\ proc = [p \in Procs |-> IdleProc]
    /\ requests = 0
    /\ faults = 0
    /\ sends = {}
    /\ metaConfigured = TRUE
    /\ run = [r \in RunIds |-> IdleRun]
    /\ gatewayCalls = [id \in 1..MaxMessageId |-> 0]

\* row ids stay inside the range the invocation counters cover
IdsLeft == nextId < MaxMessageId

NextSystem ==
    \/ IdsLeft /\ NextAdmin
    \/ \E c \in conversations : handover_conversation(c.conversation_id)
    \/ IdsLeft /\ RunStartExclusive(1)
    \/ \E status \in SendStatus : RunStep(1, status)
    \/ RunCommit(1)

SpecSystem == InitSystem /\ [][NextSystem]_vars

\* the Message rows this step adds
AddedMessages == {m \in messages' : \A o \in messages : o.message_id # m.message_id}

\* C19: every step that adds a Message row with direction outbound is the
\* insert of _create_outbound_message; the webhook handler with its admin
\* branches, the admin handover and the delivery engine add none, and no
\* step turns a stored row into an outbound one.
C19_OnlyDraftServiceAddsOutbound ==
    [][/\ \A m \in AddedMessages :
             m.direction = "outbound"
             => \E p \in Procs : /\ proc[p].pc = "draft_insert"
                                 /\ proc'[p].outbound = m.message_id
       /\ \A m \in messages' : \A o \in messages :
             o.message_id = m.message_id => o.direction = m.direction]_vars

\* An admin command has been handled, a conversation handed over, and the
\* delivery engine has recorded an attempt for a draft.
C19_Witness ==
    /\ \E p \in Answered : proc[p].command # "none"
    /\ \E c \in conversations : c.status = "handed_over"
    /\ \E m \in messages : /\ m.direction = "outbound"
                            /\ m.sent_at # NULL
                            /\ \E e \in events : e.message_id = m.message_id

\* C20 (as claimed): handling an inbound webhook never calls the provider:
\* the handler's only side effects are store writes, every send being left
\* to run_delivery.
C20_WebhookNeverSends ==
    [][\A p \in Procs : StepOf(p) => sends' = sends]_vars

\* ---------------------------------------------------------------------
\* Further claims on the delivery engine
\* ---------------------------------------------------------------------
\* the attempt events a set of rows holds for a message
AttemptsIn(evts, id) ==
    {e \in evts : e.message_id = id /\ e.event_type \in {"dry_run_attempt", "retry_attempt"}}

\* the run commits with this step
Commits(r) ==
    /\ run[r].pc = "running"
    /\ run[r].todo = <<>>
    /\ run'[r].pc = "idle"
    /\ faults' = faults

\* no delivery run is in progress
NoRunInProgress == \A r \in RunIds : run[r].pc = "idle"

\* C21 (as claimed): every gateway invocation of the delivery engine counts
\* as one attempt whatever its receipt status, so between runs the attempt
\* events stored for a message are as many as the gateway invocations made
\* for it.
C21_EveryInvocationCounts ==
    \A id \in OutboundIds :
        NoRunInProgress => Cardinality(AttemptsOf(id)) = gatewayCalls[id]

\* the run stops with this step, committing or not
Stops(r) == run[r].pc = "running" /\ run'[r].pc # "running"

\* C22 (as claimed): a delivery run is resumable: when it stops, crashed or
\* not, every gateway invocation it made is recorded by a stored attempt
\* DeliveryEvent, so the next run repeats none and the gateway is invoked at
\* most 3 times for a message over all runs.
C22_RunResumable ==
    [][/\ \A id \in OutboundIds : gatewayCalls'[id] <= 3
       /\ Stops(1)
             => \A id \in run[1].stamped :
                   \E e \in AttemptsIn(events', id) : e.created_at = run[1].now_utc]_vars


\* ---------------------------------------------------------------------
\* Specification of the delivery engine over several outbound messages
\* ---------------------------------------------------------------------
\* an attempt event as a commit stored it
AttemptRow(delivery_event_id, message_id, created_at) ==
    [delivery_event_id |-> delivery_event_id, message_id |-> message_id,
     event_type |-> EVENT_RETRY_ATTEMPT, event_detail |-> "dry_run",
     created_at |-> created_at]

\* an outbound draft stored at minute 0
DraftRow(message_id, parent, message_text, sent_at) ==
    [message_id |-> message_id, conversation_id |-> 3,
     direction |-> "outbound", message_text |-> message_text,
     provider_message_id |-> idempotency_key(parent),
     stored_at |-> 0, sent_at |-> sent_at]

\* minute 35 of a store with three drafts stored together: message 7 has
\* had its three attempts (the third in the run just committed), message 8
\* one attempt four minutes ago, message 9 none
InitDeliveryMany ==
    /\ contacts = {[contact_id |-> 1, contact_number |-> SENDER_A]}
    /\ conversations =
          {[conversation_id |-> 3, client_id |-> 1, wa_number_id |-> 1,
            contact_id |-> 1, status |-> "automated", closed_at |-> NULL]}
    /\ messages =
          {DraftRow(7, 4, R_HOURS, 35), DraftRow(8, 5, R_OUR, 31),
           DraftRow(9, 6, R_OLD, NULL)}
    /\ events =
          {AttemptRow(10, 7, 0), AttemptRow(11, 7, 5), AttemptRow(12, 8, 31),
           AttemptRow(13, 7, 35)}
    /\ nextId = 14
    /\ now = 35
    /\ proc = [p \in Procs |-> IdleProc]
    /\ requests = 0
    /\ faults = 0
    /\ sends = {}
    /\ metaConfigured = TRUE
    /\ run = [r \in RunIds |-> IdleRun]
    /\ gatewayCalls = [id \in {7, 8, 9} |-> Cardinality(attempt_events(events, id))]

NextDeliveryMany ==
    \/ RunStartExclusive(1)
    \/ \E status \in SendStatus : RunStep(1, status)
    \/ RunCommit(1)
    \/ RunCrash(1)
    \/ RunGatewayRaises(1)
    \/ DeliveryTick

SpecDeliveryMany == InitDeliveryMany /\ [][NextDeliveryMany]_vars

\* C23 (as claimed): a failure of the gateway invocation (or of building the
\* send request) for one outbound Message does not stop the run: the step
\* that invokes the gateway leaves the run in its loop, with the remaining
\* messages still to be processed and the events of its attempts kept for
\* the commit.
C23_MessageFailureDoesNotStopRun ==
    [][gatewayCalls' # gatewayCalls
         => /\ run'[1].pc = "running"
            /\ run'[1].todo = Tail(run[1].todo)
            /\ run[1].pending \subseteq run'[1].pending]_vars


\* ---------------------------------------------------------------------
\* Frame claims on the whole system
\* ---------------------------------------------------------------------
\* C24: DeliveryEvents are append-only: in every step of the system every
\* stored DeliveryEvent stays, no row's message_id, event_type, event_detail
\* or created_at changes, and rows are added only by the commit of a
\* delivery run, every added row being an attempt or a retry_exhausted
\* event of that run.
C24_EventsAppendOnly ==
    [][/\ events \subseteq events'
       /\ \A e \in events : \A d \in events' :
             d.delivery_event_id = e.delivery_event_id => d = e
       /\ events' # events
             => /\ Commits(1)
                /\ proc' = proc
                /\ \A d \in events' \ events :
                      \E e \in run[1].pending :
                         /\ d.message_id = e.message_id
                         /\ d.event_type = e.event_type
                         /\ d.event_detail = e.event_detail]_vars

\* The events of two messages are stored, committed by different runs, and
\* a run that found nothing to attempt has committed after them.
C24_Witness ==
    /\ \E e \in events : \E d \in events :
          /\ e.message_id # d.message_id
          /\ \E x \in messages : /\ x.message_id > e.delivery_event_id
                                   /\ x.message_id < d.delivery_event_id
    /\ NoRunInProgress
    /\ \A id \in OutboundIds : AttemptsOf(id) # {}

\* C25: Messages are immutable: in every step of the system every stored
\* Message keeps its message_text, direction, conversation_id,
\* provider_message_id and stored_at; sent_at changes only on outbound rows,
\* only in the commit of a delivery run that attempted the message.
C25_MessagesImmutable ==
    [][\A o \in messages :
          \E m \in messages' :
             /\ m.message_id = o.message_id
             /\ m.message_text = o.message_text
             /\ m.direction = o.direction
             /\ m.conversation_id = o.conversation_id
             /\ m.provider_message_id = o.provider_message_id
             /\ m.stored_at = o.stored_at
             /\ m.sent_at # o.sent_at
                   => /\ o.direction = "outbound"
                      /\ Commits(1)
                      /\ o.message_id \in run[1].stamped
                      /\ m.sent_at = run[1].now_utc]_vars

\* A draft carries the stamp of a committed run while the inbound message
\* it answers, and a draft not yet attempted, carry none.
C25_Witness ==
    \E m \in messages : \E i \in messages : \E d \in messages :
        /\ m.direction = "outbound" /\ m.sent_at # NULL
        /\ i.direction = "inbound" /\ i.sent_at = NULL
        /\ m.provider_message_id = idempotency_key(i.message_id)
        /\ d.direction = "outbound" /\ d.sent_at = NULL

\* C26: Conversation.status changes only in a step of handover_conversation
\* (no handler of the webhook and no delivery run moves in that step), the
\* change is always from automated to handed_over, and a handed_over
\* conversation stays handed_over, whatever is called on it afterwards.
C26_StatusOnlyByHandover ==
    [][\A c \in conversations : \A d \in conversations' :
          d.conversation_id = c.conversation_id
          => /\ c.status = "handed_over" => d.status = "handed_over"
             /\ d.status # c.status
                   => /\ c.status = "automated"
                      /\ d.status = "handed_over"
                      /\ proc' = proc
                      /\ run' = run
                      /\ messages' = messages
                      /\ events' = events]_vars

\* A handed-over conversation has since received an inbound message, got a
\* draft for it, and had the draft attempted by a delivery run.
C26_Witness ==
    \E c \in conversations :
        /\ c.status = "handed_over"
        /\ Cardinality({m \in messages : m.conversation_id = c.conversation_id
                                          /\ m.direction = "outbound"}) = 2
        /\ \E e \in events : \E f \in events : e.created_at # NULL /\ e # f


\* ---------------------------------------------------------------------
\* Claims on a delivery run over several outbound messages
\* ---------------------------------------------------------------------
\* the gateway invocations made in this step
InvokedNow == {id \in DOMAIN gatewayCalls : gatewayCalls'[id] # gatewayCalls[id]}

\* C27 (as claimed): whether a run attempts an outbound Message depends on
\* that message's own event history and the run's time only, not on the
\* order of the loop nor on what happened to another message: when the run
\* ends, by its commit or by the failure of one message's send, the
\* messages it invoked the gateway for are exactly those that were eligible
\* at its time.
C27_OutcomeIndependentOfOrder ==
    [][Stops(1) /\ (faults' = faults \/ InvokedNow # {})
         => \A id \in OutboundIds :
               id \in run[1].stamped \cup InvokedNow
                  <=> Eligible(id, run[1].now_utc)]_vars

\* C28: the count run_delivery returns rises by one with every gateway
\* invocation of the run and stays with every message skipped for backoff
\* or exhaustion, and at the commit it equals the number of attempt-kind
\* DeliveryEvents the commit appends.
C28_ReturnCountsAttempts ==
    [][/\ run[1].pc = "running" /\ run'[1].pc = "running"
             => /\ run'[1].performed_attempts
                      = run[1].performed_attempts + Cardinality(InvokedNow)
                /\ \A id \in InvokedNow : gatewayCalls'[id] = gatewayCalls[id] + 1
       /\ Commits(1)
             => /\ run[1].performed_attempts
                      = Cardinality({e \in events' \ events :
                           e.event_type \in {"dry_run_attempt", "retry_attempt"}})
                /\ run[1].performed_attempts = Cardinality(run[1].stamped)]_vars

\* A run at minute 36 that skipped nothing but the exhausted message has
\* committed: two attempts, one of them failed, and one retry_exhausted
\* event carry its time.
C28_Witness ==
    /\ NoRunInProgress
    /\ Cardinality({e \in events : e.created_at = 36 /\ e.event_type # "retry_exhausted"}) = 2
    /\ \E e \in events : e.created_at = 36 /\ e.event_detail = "failed"
    /\ \E e \in events : e.created_at = 36 /\ e.event_type = "retry_exhausted"


\* ---------------------------------------------------------------------
\* Contact service and client self-service commands
\* ---------------------------------------------------------------------
\* return True / return False
Return(l, value) == [l EXCEPT !.pc = "done", !.returned = value]

\* add_contact(db, msisdn=msisdn) is called
AddContactCall(p, msisdn) ==
    /\ proc[p].pc \in {"idle", "done"}
    /\ requests < MaxCalls
    /\ requests' = requests + 1
    /\ proc' = [proc EXCEPT ![p] =
          [IdleProc EXCEPT !.entry = "add_contact", !.pc = "add_exists",
                           !.msisdn = msisdn]]
    /\ UNCHANGED <<storeVars, nextId, now, faults, sends, metaConfigured,
                   run, gatewayCalls>>

\* if contact_exists(db, msisdn=msisdn): return False
AddContactExists(p) ==
    /\ proc[p].pc = "add_exists"
    /\ LET l == proc[p]
       IN  proc' = [proc EXCEPT ![p] =
             IF \E c \in contacts : c.contact_number = l.msisdn
             THEN Return(l, "False")
             ELSE [l EXCEPT !.pc = "add_insert"]]
    /\ UNCHANGED <<storeVars, nextId, now, requests, faults, sends,
                   metaConfigured, run, gatewayCalls>>

\* try: db.add(Contact(contact_number=msisdn)); db.commit(); return True
\* except IntegrityError: db.rollback(); return False
AddContactInsert(p) ==
    /\ proc[p].pc = "add_insert"
    /\ LET l == proc[p]
       IN  IF contact_number_unique(contacts, l.msisdn)
           THEN /\ contacts' = contacts \cup
                      {[contact_id |-> nextId, contact_number |-> l.msisdn]}
                /\ nextId' = nextId + 1
                /\ proc' = [proc EXCEPT ![p] = Return(l, "True")]
           ELSE /\ proc' = [proc EXCEPT ![p] = Return(l, "False")]
                /\ UNCHANGED <<contacts, nextId>>
    /\ UNCHANGED <<conversations, messages, events, now, requests, faults,
                   sends, metaConfigured, run, gatewayCalls>>

\* remove_contact(db, msisdn=msisdn) is called
RemoveContactCall(p, msisdn) ==
    /\ proc[p].pc \in {"idle", "done"}
    /\ requests < MaxCalls
    /\ requests' = requests + 1
    /\ proc' = [proc EXCEPT ![p] =
          [IdleProc EXCEPT !.entry = "remove_contact", !.pc = "remove_lookup",
                           !.msisdn = msisdn]]
    /\ UNCHANGED <<storeVars, nextId, now, faults, sends, metaConfigured,
                   run, gatewayCalls>>

\* contact = db.query(Contact).filter(...).one_or_none()
\* if not contact: return False
RemoveContactLookup(p) ==
    /\ proc[p].pc = "remove_lookup"
    /\ LET l == proc[p]
           existing == {c \in contacts : c.contact_number = l.msisdn}
       IN  proc' = [proc EXCEPT ![p] =
             IF existing = {} THEN Return(l, "False")
             ELSE [l EXCEPT !.pc = "remove_delete",
                            !.contact_id = (CHOOSE c \in existing : TRUE).contact_id]]
    /\ UNCHANGED <<storeVars, nextId, now, requests, faults, sends,
                   metaConfigured, run, gatewayCalls>>

\* the DELETE of db.delete(contact); db.commit(): refused by the store while
\* a conversation references the row (IntegrityError, which the callers do
\* not catch); a DELETE that matches no row any more is not an error
DeleteContact(l, next) ==
    LET deleted == {c \in contacts : c.contact_id # l.contact_id}
    IN  IF deleted = contacts
        THEN <<contacts, next>>
        ELSE IF \A c \in conversations : fk_conversation_contact(deleted, c.contact_id)
        THEN <<deleted, next>>
        ELSE <<contacts, Raise(l, "IntegrityError")>>

\* db.delete(contact); db.commit(); return True
RemoveContactDelete(p) ==
    /\ proc[p].pc = "remove_delete"
    /\ LET res == DeleteContact(proc[p], Return(proc[p], "True"))
       IN  /\ contacts' = res[1]
           /\ proc' = [proc EXCEPT ![p] = res[2]]
    /\ UNCHANGED <<conversations, messages, events, nextId, now, requests,
                   faults, sends, metaConfigured, run, gatewayCalls>>

\* the messages of the provider's payload handed to handle_client_command
\* in this model: " stop", "Resume ", "hi" and an image
ClientMsgs ==
    {[type |-> "text", body |-> <<" ","s","t","o","p">>],
     [type |-> "text", body |-> <<"R","e","s","u","m","e"," ">>],
     [type |-> "text", body |-> T_HI],
     [type |-> "image", body |-> NoText]}

\* the senders, and the numbers given to the contact service
ClientSenders == {SENDER_A, SENDER_ADMIN}

\* handle_client_command(db=db, sender=sender, msg=msg,
\* admin_allowlist=ADMIN_ALLOWLIST) up to its first query
ClientCommandCall(p, sender, msg) ==
    /\ proc[p].pc \in {"idle", "done"}
    /\ requests < MaxCalls
    /\ requests' = requests + 1
    /\ LET text == Upper(Strip(msg.body))
           l == [IdleProc EXCEPT !.entry = "client_command",
                                 !.sender_number = sender,
                                 !.message_text = msg.body,
                                 !.text = text]
       IN  proc' = [proc EXCEPT ![p] =
             IF msg.type # "text" THEN Return(l, "False")
             ELSE IF ~ metaConfigured THEN Raise(l, "RuntimeError")
             ELSE IF text = <<"S","T","O","P">>
             THEN [l EXCEPT !.pc = "stop_lookup", !.command = "stop"]
             ELSE IF text = <<"R","E","S","U","M","E">> /\ sender \notin ADMIN_ALLOWLIST
             THEN [l EXCEPT !.pc = "resume_lookup", !.command = "resume"]
             ELSE Return(l, "False")]
    /\ UNCHANGED <<storeVars, nextId, now, faults, sends, metaConfigured,
                   run, gatewayCalls>>

\* STOP: contact = db.query(Contact).filter(...).one_or_none()
StopLookup(p) ==
    /\ proc[p].pc = "stop_lookup"
    /\ LET l == proc[p]
           existing == {c \in contacts : c.contact_number = l.sender_number}
       IN  proc' = [proc EXCEPT ![p] =
             IF existing = {} THEN [l EXCEPT !.pc = "client_send"]
             ELSE [l EXCEPT !.pc = "stop_delete",
                            !.contact_id = (CHOOSE c \in existing : TRUE).contact_id]]
    /\ UNCHANGED <<storeVars, nextId, now, requests, faults, sends,
                   metaConfigured, run, gatewayCalls>>

\* STOP: db.delete(contact); db.commit()
StopDelete(p) ==
    /\ proc[p].pc = "stop_delete"
    /\ LET res == DeleteContact(proc[p], [proc[p] EXCEPT !.pc = "client_send"])
       IN  /\ contacts' = res[1]
           /\ proc' = [proc EXCEPT ![p] = res[2]]
    /\ UNCHANGED <<conversations, messages, events, nextId, now, requests,
                   faults, sends, metaConfigured, run, gatewayCalls>>

\* RESUME: existing = db.query(Contact).filter(...).one_or_none()
ResumeLookup(p) ==
    /\ proc[p].pc = "resume_lookup"
    /\ LET l == proc[p]
       IN  proc' = [proc EXCEPT ![p] =
             IF \E c \in contacts : c.contact_number = l.sender_number
             THEN [l EXCEPT !.pc = "client_send"]
             ELSE [l EXCEPT !.pc = "resume_insert"]]
    /\ UNCHANGED <<storeVars, nextId, now, requests, faults, sends,
                   metaConfigured, run, gatewayCalls>>

\* RESUME: db.add(Contact(contact_number=sender)); db.commit(), with
\* nothing to catch the IntegrityError of a lost race
ResumeInsert(p) ==
    /\ proc[p].pc = "resume_insert"
    /\ LET l == proc[p]
       IN  IF contact_number_unique(contacts, l.sender_number)
           THEN /\ contacts' = contacts \cup
                      {[contact_id |-> nextId, contact_number |-> l.sender_number]}
                /\ nextId' = nextId + 1
                /\ proc' = [proc EXCEPT ![p] = [l EXCEPT !.pc = "client_send"]]
           ELSE /\ proc' = [proc EXCEPT ![p] = Raise(l, "IntegrityError")]
                /\ UNCHANGED <<contacts, nextId>>
    /\ UNCHANGED <<conversations, messages, events, now, requests, faults,
                   sends, metaConfigured, run, gatewayCalls>>

\* meta.send_generic_business_update_template(to_msisdn=sender, ...);
\* return True
ClientSend(p, outcome) ==
    /\ proc[p].pc = "client_send"
    /\ ProviderAllows(outcome)
    /\ LET l == proc[p]
       IN  IF outcome = "raise"
           THEN /\ proc' = [proc EXCEPT ![p] = Raise(l, "ProviderError")]
                /\ faults' = faults + 1
                /\ UNCHANGED sends
           ELSE /\ proc' = [proc EXCEPT ![p] = Return(l, "True")]
                /\ sends' = sends \cup {[to |-> l.sender_number, text |-> NoText,
                                          kind |-> l.command, outcome |-> outcome]}
                /\ UNCHANGED faults
    /\ UNCHANGED <<storeVars, nextId, now, requests, metaConfigured, run,
                   gatewayCalls>>

\* a store with two contacts, the first of them with or without a
\* conversation
InitContacts ==
    /\ contacts = {[contact_id |-> 1, contact_number |-> SENDER_A],
                   [contact_id |-> 2, contact_number |-> SENDER_ADMIN]}
    /\ conversations \in
          {{}, {[conversation_id |-> 3, client_id |-> 1, wa_number_id |-> 1,
                 contact_id |-> 1, status |-> "automated", closed_at |-> NULL]}}
    /\ messages = {}
    /\ events = {}
    /\ nextId = 4
    /\ now = 0
    /\ proc = [p \in Procs |-> IdleProc]
    /\ requests = 0
    /\ faults = 0
    /\ sends = {}
    /\ metaConfigured = TRUE
    /\ run = [r \in RunIds |-> IdleRun]
    /\ gatewayCalls = <<>>

NextContacts ==
    \/ \E p \in Procs, msisdn \in ClientSenders : AddContactCall(p, msisdn)
    \/ \E p \in Procs : AddContactExists(p)
    \/ \E p \in Procs : AddContactInsert(p)
    \/ \E p \in Procs, msisdn \in ClientSenders : RemoveContactCall(p, msisdn)
    \/ \E p \in Procs : RemoveContactLookup(p)
    \/ \E p \in Procs : RemoveContactDelete(p)
    \/ \E p \in Procs, sender \in ClientSenders, msg \in ClientMsgs :
          ClientCommandCall(p, sender, msg)
    \/ \E p \in Procs : StopLookup(p)
    \/ \E p \in Procs : StopDelete(p)
    \/ \E p \in Procs : ResumeLookup(p)
    \/ \E p \in Procs : ResumeInsert(p)
    \/ \E p \in Procs, outcome \in ProviderOutcomes : ClientSend(p, outcome)

SpecContacts == InitContacts /\ [][NextContacts]_vars

\* the rows of the contacts table with this number
RowsOf(rows, number) == {c \in rows : c.contact_number = number}

\* this step is the end of a call of the contact service by p
ServiceReturns(p) ==
    /\ proc[p].entry \in {"add_contact", "remove_contact"}
    /\ proc[p].pc # "done"
    /\ proc'[p].pc = "done"

\* C29 (as claimed): every call of add_contact and remove_contact ends by
\* returning True or False, True exactly when the call changed the contacts
\* table; after add_contact(m) exactly one row has number m, and after
\* remove_contact(m) none has, so that a repeated call changes nothing.
C29_ContactServiceIdempotent ==
    [][\A p \in Procs :
          ServiceReturns(p)
          => /\ proc'[p].error = "none"
             /\ proc'[p].returned \in {"True", "False"}
             /\ proc'[p].returned = "True" <=> contacts' # contacts
             /\ Cardinality(RowsOf(contacts', proc[p].msisdn))
                   = IF proc[p].entry = "add_contact" THEN 1 ELSE 0]_vars

\* C30 (as claimed): whatever the store holds before, the write of the STOP
\* branch leaves no Contact row with the sender's number, and the write of
\* the RESUME branch (taken for a non-admin sender) leaves exactly one.
C30_StopRemovesResumeAdds ==
    [][\A p \in Procs :
          /\ proc[p].pc = "stop_delete" /\ proc'[p].pc # "stop_delete"
                => RowsOf(contacts', proc[p].sender_number) = {}
          /\ proc[p].pc = "resume_insert" /\ proc'[p].pc # "resume_insert"
                => /\ Cardinality(RowsOf(contacts', proc[p].sender_number)) = 1
                   /\ proc[p].sender_number \notin ADMIN_ALLOWLIST]_vars


\* ---------------------------------------------------------------------
\* Further claims on the retry state machine
\* ---------------------------------------------------------------------
\* the messages with a stored attempt whose gateway receipt said sent
SentOk == {id \in OutboundIds : \E e \in AttemptsOf(id) : e.event_detail = "sent"}

\* C31 (as claimed): once a gateway invocation for an outbound Message has
\* returned status sent (and the run has committed its event), no later
\* delivery run invokes the gateway for that message again.
C31_NoInvocationAfterSent ==
    [][\A id \in SentOk : gatewayCalls'[id] = gatewayCalls[id]]_vars

\* ---------------------------------------------------------------------
\* Specification of two delivery workers on one store
\* ---------------------------------------------------------------------
\* minute 35 of a store whose draft has had two attempts, at minutes 0 and 5
InitDeliveryOverlap ==
    /\ contacts = {[contact_id |-> 1, contact_number |-> SENDER_A]}
    /\ conversations =
          {[conversation_id |-> 3, client_id |-> 1, wa_number_id |-> 1,
            contact_id |-> 1, status |-> "automated", closed_at |-> NULL]}
    /\ messages = {DraftRow(7, 5, R_HOURS, 5)}
    /\ events = {AttemptRow(8, 7, 0), AttemptRow(9, 7, 5)}
    /\ nextId = 10
    /\ now = 35
    /\ proc = [p \in Procs |-> IdleProc]
    /\ requests = 0
    /\ faults = 0
    /\ sends = {}
    /\ metaConfigured = TRUE
    /\ run = [r \in RunIds |-> IdleRun]
    /\ gatewayCalls = [id \in {7} |-> 2]

\* a minute passes, whatever the workers are doing
ClockTick ==
    /\ now < MaxDeliveryTime
    /\ now' = now + 1
    /\ UNCHANGED <<storeVars, nextId, proc, requests, faults, sends,
                   metaConfigured, run, gatewayCalls>>

\* run_delivery of either worker may start while the other's run is going on
NextDeliveryOverlap ==
    \/ \E r \in RunIds : RunStart(r)
    \/ \E r \in RunIds, status \in SendStatus : RunStep(r, status)
    \/ \E r \in RunIds : RunCommit(r)
    \/ ClockTick

SpecDeliveryOverlap == InitDeliveryOverlap /\ [][NextDeliveryOverlap]_vars

\* C32 (as claimed): with two delivery runs interleaving on one store, no
\* outbound Message gets more than 3 attempt events or more than one
\* retry_exhausted event, the gateway is invoked at most 3 times for it,
\* and the two runs never both attempt it from the same attempt state.
C32_OverlappingRunsSafe ==
    \A id \in OutboundIds :
        /\ Cardinality(AttemptsOf(id)) <= 3
        /\ Cardinality(ExhaustedOf(id)) <= 1
        /\ gatewayCalls[id] <= 3
        /\ ~ (id \in run[1].stamped /\ id \in run[2].stamped)

\* ---------------------------------------------------------------------
\* Specification of the delivery engine under an unbounded clock
\* ---------------------------------------------------------------------
\* a time seen one minute later from the horizon: the engine reads times
\* only through now_utc - last_attempt_at, compared with 5 and 30 minutes,
\* so a time MaxDeliveryTime or more minutes old stays at the origin
ShiftBack(t) == IF t = NULL THEN NULL ELSE IF t > 0 THEN t - 1 ELSE 0

\* a minute passes between two runs, the clock going on past the horizon:
\* there the stored times move back instead of now moving forward
DeliveryTickOn ==
    /\ \A r \in RunIds : run[r].pc = "idle"
    /\ IF now < MaxDeliveryTime
       THEN /\ now' = now + 1
            /\ UNCHANGED <<messages, events>>
       ELSE /\ now' = now
            /\ events' = {[e EXCEPT !.created_at = ShiftBack(@)] : e \in events}
            /\ messages' = {[m EXCEPT !.stored_at = ShiftBack(@),
                                      !.sent_at = ShiftBack(@)] : m \in messages}
    /\ UNCHANGED <<contacts, conversations, nextId, proc, requests, faults,
                   sends, metaConfigured, run, gatewayCalls>>

NextDeliveryLive ==
    \/ RunStartExclusive(1)
    \/ \E status \in SendStatus : RunStep(1, status)
    \/ RunCommit(1)
    \/ DeliveryTickOn

\* run_delivery keeps being executed and every run completes; the clock
\* keeps advancing between runs
SpecDeliveryLive ==
    /\ InitDelivery
    /\ [][NextDeliveryLive]_vars
    /\ WF_vars(RunStartExclusive(1))
    /\ WF_vars(\E status \in SendStatus : RunStep(1, status))
    /\ WF_vars(RunCommit(1))
    /\ SF_vars(DeliveryTickOn)

\* the message has had its three attempts and its exhaustion is recorded
Terminal(id) ==
    /\ Cardinality(AttemptsOf(id)) = 3
    /\ Cardinality(ExhaustedOf(id)) = 1

\* the stored events without their times
Undated(evts) ==
    {<<e.delivery_event_id, e.message_id, e.event_type, e.event_detail>> : e \in evts}

\* C33: when run_delivery keeps being executed and completing while the
\* clock advances, every outbound Message eventually has 3 attempt events
\* and one retry_exhausted event, and from then on no DeliveryEvent of it
\* is added, removed or rewritten.
C33_EventuallyTerminal ==
    /\ <>[](\A id \in OutboundIds : Terminal(id))
    /\ [][\A id \in OutboundIds :
             Terminal(id) => Undated(events') = Undated(events)]_vars

\* The message is in its terminal state, its last attempt at least 30
\* minutes after the second, and the clock has gone on past the horizon.
C33_Witness ==
    /\ \A id \in OutboundIds : Terminal(id)
    /\ now = MaxDeliveryTime
    /\ \E e \in events : e.event_type = "retry_exhausted" /\ e.created_at < now
    /\ \A e \in events : e.created_at = 0 \/ e.event_type = "retry_exhausted"

\* C34: in every reachable state a retry_exhausted DeliveryEvent exists
\* only for a message with at least 3 attempt events, and every
\* DeliveryEvent belongs to a stored Message whose direction is outbound.
C34_ExhaustedOnlyAfterThree ==
    \A e \in events :
        /\ e.event_type = "retry_exhausted"
              => Cardinality(AttemptsOf(e.message_id)) >= 3
        /\ \E m \in messages : /\ m.message_id = e.message_id
                                 /\ m.direction = "outbound"

\* The draft's exhaustion is recorded after attempts of both event types,
\* while the two inbound messages of the store have no event at all.
C34_Witness ==
    /\ \E e \in events : e.event_type = "retry_exhausted"
    /\ \E e \in events : e.event_type = "dry_run_attempt"
    /\ \E e \in events : e.event_type = "retry_attempt"
    /\ Cardinality({m \in messages : /\ m.direction = "inbound"
                                      /\ \A e \in events : e.message_id # m.message_id}) = 2

\* the stored row of a message
Row(id) == CHOOSE m \in messages : m.message_id = id

\* C35 (as claimed): between delivery runs an outbound Message has sent_at
\* set exactly when it has an attempt event, whatever the gateway answered,
\* and no step of the system moves a sent_at back in time.
C35_SentAtTracksAttempts ==
    /\ [](NoRunInProgress
            => \A id \in OutboundIds : Row(id).sent_at # NULL <=> AttemptsOf(id) # {})
    /\ [][\A o \in messages : \A m \in messages' :
             m.message_id = o.message_id /\ o.sent_at # NULL
                => m.sent_at >= o.sent_at]_vars


\* ---------------------------------------------------------------------
\* Further claims on the webhook and the store's references
\* ---------------------------------------------------------------------
\* C36: in every reachable state every outbound Message carries the key of
\* an inbound Message stored in the same conversation, and every Message
\* belongs to a stored Conversation whose contact_id and wa_number_id are
\* those of a stored Contact and WhatsAppNumber, also after REMOVE CLIENT
\* commands.
C36_ReferencesIntact ==
    \A m \in messages :
        /\ m.direction = "outbound"
              => \E i \in messages :
                    /\ i.direction = "inbound"
                    /\ i.conversation_id = m.conversation_id
                    /\ m.provider_message_id = idempotency_key(i.message_id)
        /\ \E c \in conversations :
              /\ c.conversation_id = m.conversation_id
              /\ \E k \in contacts : k.contact_id = c.contact_id
              /\ \E w \in whatsapp_numbers : w.wa_number_id = c.wa_number_id

\* An admin's REMOVE CLIENT for a contact with a conversation and a draft
\* has been refused by the store and answered.
C36_Witness ==
    /\ \E p \in Answered : proc[p].command = "remove" /\ proc[p].confirm = "failed"
    /\ \E m \in messages : m.direction = "outbound"
    /\ faults = 0

\* C37: within one delivery run the gateway is invoked at most once for
\* each outbound Message, and the commit of a run raises a message's
\* attempt count by at most 1, also when the required wait is 0 or the
\* run's clock is past every backoff deadline.
C37_OneAttemptPerRun ==
    [][/\ \A id \in InvokedNow :
             /\ id \notin run[1].stamped
             /\ gatewayCalls'[id] = gatewayCalls[id] + 1
       /\ \A id \in OutboundIds :
             Cardinality(AttemptsIn(events', id))
                <= Cardinality(AttemptsIn(events, id)) + 1]_vars

\* A message attempted at minute 0 and left alone until both backoff
\* deadlines had passed has got exactly one more attempt from the run that
\* found it.
C37_Witness ==
    /\ NoRunInProgress
    /\ \E id \in OutboundIds :
          /\ Cardinality(AttemptsOf(id)) = 2
          /\ \E e \in AttemptsOf(id) : e.created_at = 0
          /\ \E e \in AttemptsOf(id) : e.created_at >= 35
          /\ gatewayCalls[id] = 2

\* ---------------------------------------------------------------------
\* Specification of the webhook receiving command texts from any sender
\* ---------------------------------------------------------------------
\* "Add Client: 0620000009", a command text naming the admin's own number
T_ADD_OTHER == <<"A","d","d"," ","C","l","i","e","n","t",":"," ",
                 "0","6","2","0","0","0","0","0","0","9">>

\* "SEND: 0820000001 hours", a command text that also matches a FAQ
T_SEND_HOURS == <<"S","E","N","D",":"," ","0","8","2","0","0","0","0","0","0","1",
                  " ","h","o","u","r","s">>

\* every command text from the admin and from a sender off the allow-list
GateBodies ==
    {Body(KNOWN_DEST, s, t) :
        s \in {SENDER_ADMIN, SENDER_A}, t \in {T_ADD_OTHER, T_REMOVE, T_SEND_HOURS}}

NextGate ==
    \/ \E p \in Procs, body \in GateBodies : Receive(p, body)
    \/ \E p \in Procs : AdminLookup(p)
    \/ \E p \in Procs : AdminWrite(p)
    \/ \E p \in Procs, outcome \in ProviderOutcomes : AdminSend(p, outcome)
    \/ \E p \in Procs, outcome \in ProviderOutcomes : AdminConfirm(p, outcome)
    \/ \E p \in Procs, outcome \in ProviderOutcomes : AdminConfirmExcept(p, outcome)
    \/ \E p \in Procs : AdminStoreFault(p)
    \/ \E p \in Procs : ContactLookup(p)
    \/ \E p \in Procs : ContactInsert(p)
    \/ \E p \in Procs : ConversationLookup(p)
    \/ \E p \in Procs : ConversationInsert(p)
    \/ \E p \in Procs : InboundInsert(p)
    \/ \E p \in Procs : FaqMatch(p)
    \/ \E p \in Procs : DraftCheckKey(p)
    \/ \E p \in Procs : DraftCheckWindow(p)
    \/ \E p \in Procs : DraftInsert(p)
    \/ \E p \in Procs : StoreFault(p)

SpecGate == InitAdmin /\ [][NextGate]_vars

\* the handlers working on an event whose sender is off the allow-list
Outsiders(procs) ==
    {p \in Procs : procs[p].entry = "webhook"
                    /\ procs[p].sender_number \notin ADMIN_ALLOWLIST}

None == "None"

\* the values of hub.mode, hub.verify_token, hub.challenge and of the
\* environment variable META_VERIFY_TOKEN in this model
HubModes == {None, "subscribe", "unsubscribe"}
HubTokens == {None, "", "s3cret", "guess"}
HubChallenges == {None, "", "1158201444"}
EnvTokens == {None, "", "s3cret"}

\* verify_webhook: the challenge with 200, or HTTPException(403)
verify_webhook(p, mode, token, challenge, env) ==
    /\ proc[p].pc \in {"idle", "done"}
    /\ requests < MaxRequests
    /\ requests' = requests + 1
    /\ LET l == [IdleProc EXCEPT !.entry = "verify", !.pc = "done",
                                 !.hub_mode = mode,
                                 !.hub_verify_token = token,
                                 !.hub_challenge = challenge,
                                 !.META_VERIFY_TOKEN = env]
       IN  proc' = [proc EXCEPT ![p] =
             IF mode = "subscribe" /\ token = env /\ challenge \notin {None, ""}
             THEN [l EXCEPT !.http = 200, !.content = challenge]
             ELSE [l EXCEPT !.http = 403]]
    /\ UNCHANGED <<storeVars, nextId, now, faults, sends, metaConfigured,
                   run, gatewayCalls>>

NextVerify ==
    \E p \in Procs, mode \in HubModes, token \in HubTokens,
       challenge \in HubChallenges, env \in EnvTokens :
        verify_webhook(p, mode, token, challenge, env)

SpecVerify == InitAdmin /\ [][NextVerify]_vars

\* C39 (as claimed): a verification request is answered with the challenge
\* exactly when hub.mode is subscribe, hub.challenge is given and not
\* empty, and the caller gave a hub.verify_token equal to a configured
\* META_VERIFY_TOKEN; every other request, one without a token included,
\* is answered 403.
C39_VerifyNeedsToken ==
    \A p \in Procs :
        proc[p].entry = "verify" /\ proc[p].pc = "done"
        => IF /\ proc[p].hub_mode = "subscribe"
              /\ proc[p].hub_challenge \notin {None, ""}
              /\ proc[p].hub_verify_token # None
              /\ proc[p].META_VERIFY_TOKEN \notin {None, ""}
              /\ proc[p].hub_verify_token = proc[p].META_VERIFY_TOKEN
           THEN proc[p].http = 200 /\ proc[p].content = proc[p].hub_challenge
           ELSE proc[p].http = 403


====
